---- MODULE Spec2Model ----
(***************************************************************************)
(* Model of the applicant pipeline: validator.py (DataCleaner,             *)
(* ApplicantDataValidator, process_applicant_resume) and                   *)
(* applicant_excel_writer.py (ApplicantExcelWriter).                       *)
(*                                                                         *)
(* A Python str is a sequence of characters.  A character is a TLA+        *)
(* string; the Hangul syllables the code uses are written by their         *)
(* romanisation ("nam" is U+B0A8, "jae" is U+C7AC, ...), and ord gives     *)
(* every character its Unicode code point.                                 *)
(***************************************************************************)
EXTENDS Integers, Sequences, FiniteSets, TLC

VARIABLES
    col,             \* column algebra: the static-method call being evaluated
    column_mapping,  \* ApplicantExcelWriter.column_mapping, set by __init__
    heap,            \* the dicts and lists allocated so far
    cl,              \* DataCleaner: the caller's record and the calls made on it
    vd,              \* the ApplicantDataValidator instance and what it returned
    store,           \* the workbook file at excel_path: its rows
    pr,              \* the pipeline: the calls made and their outcomes
    clock            \* the date datetime.now() gives, <<year, month, day>>

vars == <<col, column_mapping, heap, cl, vd, store, pr, clock>>

-----------------------------------------------------------------------------
(* Characters and strings *)

Digits == <<"0", "1", "2", "3", "4", "5", "6", "7", "8", "9">>
Upper == <<"A", "B", "C", "D", "E", "F", "G", "H", "I", "J", "K", "L", "M",
           "N", "O", "P", "Q", "R", "S", "T", "U", "V", "W", "X", "Y", "Z">>
Lower == <<"a", "b", "c", "d", "e", "f", "g", "h", "i", "j", "k", "l", "m",
           "n", "o", "p", "q", "r", "s", "t", "u", "v", "w", "x", "y", "z">>

Range(s) == {s[i] : i \in DOMAIN s}
IndexIn(s, c) == CHOOSE i \in DOMAIN s : s[i] = c

ord(c) ==
    CASE c \in Range(Digits) -> 47 + IndexIn(Digits, c)
      [] c \in Range(Upper) -> 64 + IndexIn(Upper, c)
      [] c \in Range(Lower) -> 96 + IndexIn(Lower, c)
      [] c = " " -> 32
      [] c = "+" -> 43
      [] c = "," -> 44
      [] c = "-" -> 45
      [] c = "." -> 46
      [] c = "/" -> 47
      [] c = "[" -> 91
      [] c = "]" -> 93
      [] c = "_" -> 95
      [] c = "gi" -> 44592
      [] c = "nam" -> 45224
      [] c = "sa" -> 49324
      [] c = "seong" -> 49457
      [] c = "yeo" -> 50668
      [] c = "jae" -> 51116
      [] c = "jung" -> 51473
      [] c = "jik" -> 51649
      [] c = "ta" -> 53440
      [] c = "hak" -> 54617
      [] c = "hyeon" -> 54788

\* chr, on the range the code uses it: the capital letters
chr(n) == Upper[n - 64]

\* str(n) for an integer n
RECURSIVE str_digits(_)
str_digits(n) ==
    IF n < 10 THEN <<Digits[n + 1]>>
    ELSE str_digits(n \div 10) \o <<Digits[(n % 10) + 1]>>

str_int(n) == IF n < 0 THEN <<"-">> \o str_digits(0 - n) ELSE str_digits(n)

(* The keys of an applicant record *)
k_applicant_number == <<"a", "p", "p", "l", "i", "c", "a", "n", "t", "_",
    "n", "u", "m", "b", "e", "r">>
k_applicant_name == <<"a", "p", "p", "l", "i", "c", "a", "n", "t", "_", "n",
    "a", "m", "e">>
k_application_date == <<"a", "p", "p", "l", "i", "c", "a", "t", "i", "o",
    "n", "_", "d", "a", "t", "e">>
k_affiliation == <<"a", "f", "f", "i", "l", "i", "a", "t", "i", "o", "n">>
k_application_field == <<"a", "p", "p", "l", "i", "c", "a", "t", "i", "o",
    "n", "_", "f", "i", "e", "l", "d">>
k_basic_info == <<"b", "a", "s", "i", "c", "_", "i", "n", "f", "o">>
k_birth_year == <<"b", "i", "r", "t", "h", "_", "y", "e", "a", "r">>
k_gender == <<"g", "e", "n", "d", "e", "r">>
k_final_education_school == <<"f", "i", "n", "a", "l", "_", "e", "d", "u",
    "c", "a", "t", "i", "o", "n", "_", "s", "c", "h", "o", "o", "l">>
k_final_education_degree == <<"f", "i", "n", "a", "l", "_", "e", "d", "u",
    "c", "a", "t", "i", "o", "n", "_", "d", "e", "g", "r", "e", "e">>
k_work_experience == <<"w", "o", "r", "k", "_", "e", "x", "p", "e", "r",
    "i", "e", "n", "c", "e">>
k_start_date == <<"s", "t", "a", "r", "t", "_", "d", "a", "t", "e">>
k_end_date == <<"e", "n", "d", "_", "d", "a", "t", "e">>
k_company_name == <<"c", "o", "m", "p", "a", "n", "y", "_", "n", "a", "m",
    "e">>
k_final_department == <<"f", "i", "n", "a", "l", "_", "d", "e", "p", "a",
    "r", "t", "m", "e", "n", "t">>
k_final_position == <<"f", "i", "n", "a", "l", "_", "p", "o", "s", "i", "t",
    "i", "o", "n">>
k_salary == <<"s", "a", "l", "a", "r", "y">>

-----------------------------------------------------------------------------
(* ApplicantExcelWriter: column algebra and column mapping *)

WORK_EXPERIENCE_COUNT == 5
BASE_COLUMNS_V_BLOCK_SHORT ==
    << <<"J">>, <<"P">>, <<"V">>, <<"A", "A">>, <<"A", "H">> >>

WORK_EXPERIENCE_BASE_COLUMNS ==
    << <<"J">>, <<"P">>, <<"V">>, <<"A", "B">>, <<"A", "H">> >>
WORK_EXPERIENCE_FIELDS ==
    <<k_start_date, k_end_date, k_company_name,
      k_final_department, k_final_position, k_salary>>

RECURSIVE column_to_index_loop(_, _, _)
column_to_index_loop(colstr, i, result) ==
    IF i > Len(colstr) THEN result
    ELSE column_to_index_loop(colstr, i + 1,
                              result * 26 + (ord(colstr[i]) - ord("A") + 1))

_column_to_index(colstr) == column_to_index_loop(colstr, 1, 0) - 1

RECURSIVE index_to_column_loop(_, _)
index_to_column_loop(idx, colstr) ==
    IF idx > 0
    THEN LET i1 == idx - 1
         IN index_to_column_loop(i1 \div 26,
                                 <<chr((i1 % 26) + ord("A"))>> \o colstr)
    ELSE colstr

_index_to_column_no_increment(idx) == index_to_column_loop(idx, <<>>)

_index_to_column(idx) == index_to_column_loop(idx + 1, <<>>)

\* dict.update
update(d, e) ==
    [k \in DOMAIN d \cup DOMAIN e |-> IF k \in DOMAIN e THEN e[k] ELSE d[k]]

\* f'work_experience[{exp_idx}].{field}'
work_experience_path(exp_idx, field) ==
    k_work_experience \o <<"[">> \o str_int(exp_idx) \o <<"]", ".">> \o field

_create_work_experience_mapping ==
    LET slots == 0 .. (WORK_EXPERIENCE_COUNT - 1)
        offs == 0 .. (Len(WORK_EXPERIENCE_FIELDS) - 1)
        paths == {work_experience_path(i, WORK_EXPERIENCE_FIELDS[j + 1]) :
                      i \in slots, j \in offs}
        \* the last assignment to a key wins
        last(p) == CHOOSE ij \in slots \X offs :
                       /\ work_experience_path(ij[1], WORK_EXPERIENCE_FIELDS[ij[2] + 1]) = p
                       /\ \A kl \in slots \X offs :
                            work_experience_path(kl[1], WORK_EXPERIENCE_FIELDS[kl[2] + 1]) = p
                              => kl[1] * Len(WORK_EXPERIENCE_FIELDS) + kl[2]
                                   <= ij[1] * Len(WORK_EXPERIENCE_FIELDS) + ij[2]
    IN [p \in paths |->
          _index_to_column(
              _column_to_index(WORK_EXPERIENCE_BASE_COLUMNS[last(p)[1] + 1])
                  + last(p)[2])]

basic_info_path(field) == k_basic_info \o <<".">> \o field

_create_column_mapping ==
    LET mapping ==
          (k_applicant_number :> <<"A">>) @@
          (k_applicant_name :> <<"B">>) @@
          (k_application_date :> <<"C">>) @@
          (k_affiliation :> <<"D">>) @@
          (k_application_field :> <<"E">>) @@
          (basic_info_path(k_birth_year) :> <<"F">>) @@
          (basic_info_path(k_gender) :> <<"G">>) @@
          (basic_info_path(k_final_education_school) :> <<"H">>) @@
          (basic_info_path(k_final_education_degree) :> <<"I">>)
    IN update(mapping, _create_work_experience_mapping)

-----------------------------------------------------------------------------
(* Python values.  A value is None, a str, an int or a reference to a      *)
(* container on the heap; the heap is the sequence of the containers       *)
(* allocated so far (dicts and lists), a reference being an index into it. *)
(* Two names bound to the same dict or list are the same reference.        *)

PyNone == [t |-> "none"]
PyStr(s) == [t |-> "str", s |-> s]
PyInt(n) == [t |-> "int", n |-> n]
PyRef(a) == [t |-> "ref", a |-> a]
Dict(d) == [k |-> "dict", d |-> d]
List(l) == [k |-> "list", l |-> l]

is_str(v) == v.t = "str"
is_dict(h, v) == v.t = "ref" /\ h[v.a].k = "dict"
is_list(h, v) == v.t = "ref" /\ h[v.a].k = "list"

\* bool(v)
truthy(h, v) ==
    CASE v.t = "none" -> FALSE
      [] v.t = "str" -> v.s # <<>>
      [] v.t = "int" -> v.n # 0
      [] v.t = "ref" -> IF h[v.a].k = "dict" THEN DOMAIN h[v.a].d # {}
                        ELSE h[v.a].l # <<>>

\* The outcome of an expression: a value, or the exception it raised
Ok(v) == [exc |-> "", v |-> v]
Raise(e) == [exc |-> e]

\* The value a reference stands for, containers unfolded (the == of Python
\* on dicts and lists compares these)
RECURSIVE deep(_, _)
deep(h, v) ==
    IF v.t # "ref" THEN v
    ELSE IF h[v.a].k = "dict"
         THEN [t |-> "dict",
               d |-> [key \in DOMAIN h[v.a].d |-> deep(h, h[v.a].d[key])]]
         ELSE [t |-> "list",
               l |-> [i \in DOMAIN h[v.a].l |-> deep(h, h[v.a].l[i])]]

\* json.load / a dict literal: the containers of a document, allocated,
\* children before their parent.  alloc gives the heap and the value;
\* alloc_items the heap and the items of one container, those of todo still
\* to be allocated
is_container(tree) == tree.t \in {"dict", "list"}
items_of(tree) == IF tree.t = "dict" THEN tree.d ELSE tree.l
containers_in(f) == {x \in DOMAIN f : is_container(f[x])}
RECURSIVE alloc(_, _)
RECURSIVE alloc_items(_, _, _)
alloc_items(h, todo, items) ==
    IF todo = {} THEN [h |-> h, items |-> items]
    ELSE LET key == CHOOSE x \in todo : TRUE
             r == alloc(h, items[key])
         IN alloc_items(r.h, todo \ {key}, [items EXCEPT ![key] = r.v])
new_object(h, obj) == [h |-> Append(h, obj), v |-> PyRef(Len(h) + 1)]
alloc_dict(r) == new_object(r.h, Dict(r.items))
alloc_list(r) == new_object(r.h, List(r.items))
alloc(h, tree) ==
    CASE tree.t = "dict" ->
           alloc_dict(alloc_items(h, containers_in(tree.d), tree.d))
      [] tree.t = "list" ->
           alloc_list(alloc_items(h, containers_in(tree.l), tree.l))
      [] OTHER -> [h |-> h, v |-> tree]

DictTree(d) == [t |-> "dict", d |-> d]
ListTree(l) == [t |-> "list", l |-> l]

(* str methods *)

is_space(c) == c = " "

RECURSIVE lstrip(_)
lstrip(s) == IF s # <<>> /\ is_space(Head(s)) THEN lstrip(Tail(s)) ELSE s

RECURSIVE rstrip(_)
rstrip(s) ==
    IF s # <<>> /\ is_space(s[Len(s)]) THEN rstrip(SubSeq(s, 1, Len(s) - 1))
    ELSE s

strip(s) == rstrip(lstrip(s))

\* s.replace(old, new) for a one-character old
replace_char(s, old, new) ==
    [i \in DOMAIN s |-> IF s[i] = old THEN new ELSE s[i]]

\* s.replace(old, '') for a one-character old
remove_char(s, old) == SelectSeq(s, LAMBDA c : c # old)

\* characters that str.isdigit accepts and int rejects: the superscript
\* digits and the like, "sup2" standing for U+00B2
SuperscriptDigits == {"sup2"}

isdigit(s) ==
    s # <<>> /\ \A i \in DOMAIN s : s[i] \in Range(Digits) \cup SuperscriptDigits

\* sub in s, for two strs
is_substring(sub, s) ==
    \E i \in 0 .. (Len(s) - Len(sub)) : SubSeq(s, i + 1, i + Len(sub)) = sub

\* a < b for two strs: by code point, a proper prefix being smaller
RECURSIVE str_lt(_, _)
str_lt(a, b) ==
    IF b = <<>> THEN FALSE
    ELSE IF a = <<>> THEN TRUE
    ELSE IF Head(a) = Head(b) THEN str_lt(Tail(a), Tail(b))
    ELSE ord(Head(a)) < ord(Head(b))

\* int(s) for a str: optional surrounding whitespace, an optional sign,
\* decimal digits, single underscores between digits
RECURSIVE digits_value(_, _)
digits_value(s, acc) ==
    IF s = <<>> THEN acc
    ELSE digits_value(Tail(s), acc * 10 + (IndexIn(Digits, Head(s)) - 1))

int_of_str(s) ==
    LET body == strip(s)
        signed == body # <<>> /\ Head(body) \in {"+", "-"}
        num == IF signed THEN Tail(body) ELSE body
        well_formed ==
            /\ num # <<>>
            /\ \A i \in DOMAIN num : num[i] \in Range(Digits) \cup {"_"}
            /\ num[1] # "_" /\ num[Len(num)] # "_"
            /\ \A i \in 1 .. (Len(num) - 1) : ~(num[i] = "_" /\ num[i + 1] = "_")
        value == digits_value(remove_char(num, "_"), 0)
    IN IF ~well_formed THEN Raise("ValueError")
       ELSE IF signed /\ Head(body) = "-" THEN Ok(PyInt(0 - value))
       ELSE Ok(PyInt(value))

(* Operations on a value of any type, as the interpreter performs them *)

\* item in container, item a str
contains(h, container, item) ==
    CASE container.t = "str" -> Ok(is_substring(item, container.s))
      [] is_dict(h, container) -> Ok(item \in DOMAIN h[container.a].d)
      [] is_list(h, container) ->
           Ok(\E i \in DOMAIN h[container.a].l :
                  deep(h, h[container.a].l[i]) = PyStr(item))
      [] OTHER -> Raise("TypeError")

\* container[key], key a str
getitem(h, container, key) ==
    IF is_dict(h, container)
    THEN IF key \in DOMAIN h[container.a].d THEN Ok(h[container.a].d[key])
         ELSE Raise("KeyError")
    ELSE Raise("TypeError")

\* the keys of a dict as a for loop visits them (the order of insertion,
\* which the model does not keep: no step of the code depends on it)
RECURSIVE keys_in_order(_)
keys_in_order(keys) ==
    IF keys = {} THEN <<>>
    ELSE LET key == CHOOSE x \in keys : TRUE
         IN <<PyStr(key)>> \o keys_in_order(keys \ {key})

\* the items a for loop over v visits
iterate(h, v) ==
    CASE v.t = "str" -> Ok([i \in DOMAIN v.s |-> PyStr(<<v.s[i]>>)])
      [] is_list(h, v) -> Ok(h[v.a].l)
      [] is_dict(h, v) -> Ok(keys_in_order(DOMAIN h[v.a].d))
      [] OTHER -> Raise("TypeError")

\* d[key] = value on the dict at address a
setitem(h, a, key, value) ==
    [h EXCEPT ![a] = Dict([x \in DOMAIN h[a].d \cup {key} |->
                              IF x = key THEN value ELSE h[a].d[x]])]

-----------------------------------------------------------------------------
(* list.sort(key, reverse) as CPython performs it on a list of fewer than  *)
(* 64 items: the keys are computed first, the list is reversed, the        *)
(* leading run is found (count_run) and the rest inserted by binary        *)
(* insertion (binarysort), and the list is reversed again, also when a     *)
(* comparison raised: the items then stay as the sort had moved them.      *)
(* An item of the sequences below is [key, val].                           *)

\* a < b on two keys
lt(a, b) ==
    CASE a.t = "str" /\ b.t = "str" -> Ok(str_lt(a.s, b.s))
      [] a.t = "int" /\ b.t = "int" -> Ok(a.n < b.n)
      [] OTHER -> Raise("TypeError")

reverse_seq(q) == [i \in DOMAIN q |-> q[Len(q) + 1 - i]]

\* count_run: the length of the run that starts the sequence, from the
\* comparison c of q[i] with q[i - 1]
RECURSIVE count_run(_, _, _)
count_run_step(q, i, descending, c) ==
    IF c.exc # "" THEN [exc |-> c.exc]
    ELSE IF i = 2 THEN count_run(q, 3, c.v)
    ELSE IF c.v = descending THEN count_run(q, i + 1, descending)
    ELSE [exc |-> "", n |-> i - 1, descending |-> descending]
count_run(q, i, descending) ==
    IF i > Len(q) THEN [exc |-> "", n |-> Len(q), descending |-> descending]
    ELSE count_run_step(q, i, descending, lt(q[i].key, q[i - 1].key))

\* the binary search of binarysort for the slot of pivot in q[l+1 .. r],
\* p the probe and c the comparison of pivot with q[p+1]
RECURSIVE binary_search(_, _, _, _)
binary_search_step(q, pivot, l, r, p, c) ==
    IF c.exc # "" THEN [exc |-> c.exc]
    ELSE IF c.v
         THEN IF l < p THEN binary_search(q, pivot, l, p)
              ELSE [exc |-> "", l |-> l]
         ELSE IF p + 1 < r THEN binary_search(q, pivot, p + 1, r)
              ELSE [exc |-> "", l |-> p + 1]
binary_search(q, pivot, l, r) ==
    binary_search_step(q, pivot, l, r, l + ((r - l) \div 2),
                       lt(pivot.key, q[l + ((r - l) \div 2) + 1].key))

\* q with q[start + 1] moved to slot l + 1
insert_at(q, start, l) ==
    [i \in DOMAIN q |->
        IF i <= l \/ i > start + 1 THEN q[i]
        ELSE IF i = l + 1 THEN q[start + 1]
        ELSE q[i - 1]]

\* binarysort: q[1 .. start] is sorted, the rest is inserted item by item
RECURSIVE binarysort(_, _)
binarysort_step(q, start, f) ==
    IF f.exc # "" THEN [exc |-> f.exc, q |-> q]
    ELSE binarysort(insert_at(q, start, f.l), start + 1)
binarysort(q, start) ==
    IF start >= Len(q) THEN [exc |-> "", q |-> q]
    ELSE binarysort_step(q, start, binary_search(q, q[start + 1], 0, start))

reverse_prefix(q, n) ==
    [i \in DOMAIN q |-> IF i <= n THEN q[n + 1 - i] ELSE q[i]]

sort_run(q, run) ==
    IF run.exc # "" THEN [exc |-> run.exc, q |-> q]
    ELSE binarysort(IF run.descending THEN reverse_prefix(q, run.n) ELSE q,
                    run.n)

sort_forward(q) ==
    IF Len(q) < 2 THEN [exc |-> "", q |-> q]
    ELSE sort_run(q, count_run(q, 2, FALSE))

sort_finish(done, reverse) ==
    [exc |-> done.exc, q |-> IF reverse THEN reverse_seq(done.q) ELSE done.q]

\* descending obtained by reversing a stable ascending sort: ties come out
\* in reverse input order
listsort_reversing_ascending(q, reverse) ==
    sort_finish(sort_forward(q), reverse)

listsort(q, reverse) ==
    sort_finish(sort_forward(IF reverse THEN reverse_seq(q) ELSE q), reverse)

-----------------------------------------------------------------------------
(* DataCleaner.  A step gives [h, exc]: the heap it leaves and the         *)
(* exception it raised, "" when it returned.                               *)

ONGOING == <<"jae", "jik", "jung">>                       \* '재직중'
ONGOING_SYNONYMS ==
    {ONGOING, <<"P", "r", "e", "s", "e", "n", "t">>, <<"hyeon", "jae">>}

MALE == <<"nam">>                                         \* '남'
FEMALE == <<"yeo">>                                       \* '여'
gender_map ==
    (<<"nam", "seong">> :> MALE) @@ (<<"m", "a", "l", "e">> :> MALE) @@
    (<<"M">> :> MALE) @@
    (<<"yeo", "seong">> :> FEMALE) @@
    (<<"f", "e", "m", "a", "l", "e">> :> FEMALE) @@ (<<"F">> :> FEMALE)

DEFAULT_START_DATE == <<"0", "0", "0", "0", "-", "0", "0">>   \* '0000-00'
MAX_EXPERIENCES == 5

Returned(h) == [h |-> h, exc |-> ""]
Raised(h, e) == [h |-> h, exc |-> e]

\* str(v), for the values a date field holds in this model
py_str(v) ==
    CASE v.t = "str" -> v.s
      [] v.t = "int" -> str_int(v.n)

RECURSIVE _trim_strings(_, _)
RECURSIVE trim_dict_items(_, _, _)
RECURSIVE trim_list_items(_, _, _)
trim_item(h, a, key, value) ==
    IF is_str(value) THEN setitem(h, a, key, PyStr(strip(value.s)))
    ELSE _trim_strings(h, value)
trim_dict_items(h, a, todo) ==
    IF todo = {} THEN h
    ELSE trim_dict_items(
             trim_item(h, a, CHOOSE x \in todo : TRUE,
                       h[a].d[CHOOSE x \in todo : TRUE]),
             a, todo \ {CHOOSE x \in todo : TRUE})
trim_list_items(h, a, i) ==
    IF i > Len(h[a].l) THEN h
    ELSE trim_list_items(_trim_strings(h, h[a].l[i]), a, i + 1)
_trim_strings(h, obj) ==
    IF is_dict(h, obj) THEN trim_dict_items(h, obj.a, DOMAIN h[obj.a].d)
    ELSE IF is_list(h, obj) THEN trim_list_items(h, obj.a, 1)
    ELSE h

\* date_str.replace('.', '-').replace('/', '-')
dash_separators(date_str) ==
    replace_char(replace_char(date_str, ".", "-"), "/", "-")

\* lines 297-298, on the string with its separators replaced
format_day(r) ==
    IF Len(r) = 8 /\ isdigit(r)
    THEN SubSeq(r, 1, 4) \o <<"-">> \o SubSeq(r, 5, 6) \o <<"-">> \o SubSeq(r, 7, 8)
    ELSE r

\* lines 309-310, on the string with its separators replaced
format_month(r) ==
    IF Len(r) = 6 /\ isdigit(r)
    THEN SubSeq(r, 1, 4) \o <<"-">> \o SubSeq(r, 5, 6)
    ELSE r

\* lines 293-299
normalize_application_date(h, data) ==
    IF k_application_date \notin DOMAIN h[data].d THEN Returned(h)
    ELSE IF ~is_str(h[data].d[k_application_date])
         THEN Raised(h, "AttributeError")
    ELSE Returned(setitem(h, data, k_application_date,
             PyStr(format_day(dash_separators(h[data].d[k_application_date].s)))))

\* lines 306-313, date_str being str(exp[date_field])
set_date(h, exp, date_field, date_str) ==
    Returned(setitem(h, exp.a, date_field,
                     IF date_str \notin ONGOING_SYNONYMS
                     THEN PyStr(format_month(dash_separators(date_str)))
                     ELSE PyStr(ONGOING)))

\* line 305 on, got being exp[date_field]
normalize_date_value(h, exp, date_field, got) ==
    IF got.exc # "" THEN Raised(h, got.exc)
    ELSE IF ~truthy(h, got.v) THEN Returned(h)
    ELSE set_date(h, exp, date_field, py_str(got.v))

\* line 305 on, has being (date_field in exp)
normalize_date_present(h, exp, date_field, has) ==
    IF has.exc # "" THEN Raised(h, has.exc)
    ELSE IF ~has.v THEN Returned(h)
    ELSE normalize_date_value(h, exp, date_field, getitem(h, exp, date_field))

\* lines 305-313, for one date_field of one exp
normalize_date_field(r, exp, date_field) ==
    IF r.exc # "" THEN r
    ELSE normalize_date_present(r.h, exp, date_field,
                                contains(r.h, exp, date_field))

\* lines 303-313: the loop over the entries, from entry i on
RECURSIVE normalize_experiences(_, _, _)
normalize_experiences(r, exps, i) ==
    IF r.exc # "" \/ i > Len(exps) THEN r
    ELSE normalize_experiences(
             normalize_date_field(normalize_date_field(r, exps[i], k_start_date),
                                  exps[i], k_end_date),
             exps, i + 1)

\* lines 303-313, it being iter(data['work_experience'])
normalize_iterated(h, it) ==
    IF it.exc # "" THEN Raised(h, it.exc)
    ELSE normalize_experiences(Returned(h), it.v, 1)

\* lines 302-313, after the application date
normalize_work_dates(r, data) ==
    IF r.exc # "" THEN r
    ELSE IF k_work_experience \notin DOMAIN r.h[data].d THEN r
    ELSE normalize_iterated(r.h, iterate(r.h, r.h[data].d[k_work_experience]))

_normalize_dates(h, data) ==
    normalize_work_dates(normalize_application_date(h, data), data)

\* line 248, got being cleaned['basic_info']['gender']
set_gender(h, basic_info, got) ==
    IF got.exc # "" THEN Raised(h, got.exc)
    ELSE IF got.v.t = "ref" THEN Raised(h, "TypeError")    \* unhashable
    ELSE Returned(setitem(h, basic_info.a, k_gender,
                          IF got.v.t = "str" /\ got.v.s \in DOMAIN gender_map
                          THEN PyStr(gender_map[got.v.s]) ELSE got.v))

\* lines 242-248, has being ('gender' in cleaned['basic_info'])
normalize_gender_present(h, basic_info, has) ==
    IF has.exc # "" THEN Raised(h, has.exc)
    ELSE IF ~has.v THEN Returned(h)
    ELSE set_gender(h, basic_info, getitem(h, basic_info, k_gender))

\* lines 242-248
normalize_gender(r, cleaned) ==
    IF r.exc # "" THEN r
    ELSE IF k_basic_info \notin DOMAIN r.h[cleaned].d THEN r
    ELSE normalize_gender_present(
             r.h, r.h[cleaned].d[k_basic_info],
             contains(r.h, r.h[cleaned].d[k_basic_info], k_gender))

\* key=lambda x: x.get('start_date', '0000-00')
sort_key(h, x) ==
    IF ~is_dict(h, x) THEN Raise("AttributeError")
    ELSE IF k_start_date \in DOMAIN h[x.a].d THEN Ok(h[x.a].d[k_start_date])
    ELSE Ok(PyStr(DEFAULT_START_DATE))

\* experiences[-n:]
slice_from_end(l, n) ==
    SubSeq(l, IF Len(l) < n THEN 1 ELSE Len(l) - n + 1, Len(l))

\* experiences[:n]
slice_to(l, n) == SubSeq(l, 1, IF Len(l) < n THEN Len(l) ELSE n)

\* line 261: cleaned['work_experience'] = experiences[:5]
keep_top(h, cleaned, experiences) ==
    setitem(Append(h, List(slice_to(h[experiences.a].l, MAX_EXPERIENCES))),
            cleaned, k_work_experience, PyRef(Len(h) + 1))

\* lines 255-263, sorted being the outcome of experiences.sort
after_sort(h, cleaned, experiences, sorted) ==
    IF sorted.exc # ""
    THEN [h EXCEPT ![experiences.a] =
             List([i \in DOMAIN sorted.q |-> sorted.q[i].val])]
    ELSE keep_top([h EXCEPT ![experiences.a] =
                      List([i \in DOMAIN sorted.q |-> sorted.q[i].val])],
                  cleaned, experiences)

\* lines 256-259, keys being the key of every item
sort_with_keys(h, cleaned, experiences, keys) ==
    IF \E i \in DOMAIN keys : keys[i].exc # "" THEN h
    ELSE after_sort(h, cleaned, experiences,
                    listsort([i \in DOMAIN keys |->
                                 [key |-> keys[i].v,
                                  val |-> h[experiences.a].l[i]]],
                             TRUE))

\* lines 253-263
sort_experiences(h, cleaned, experiences) ==
    IF ~is_list(h, experiences) THEN h
    ELSE sort_with_keys(h, cleaned, experiences,
                        [i \in DOMAIN h[experiences.a].l |->
                            sort_key(h, h[experiences.a].l[i])])

\* lines 251-263; the try swallows what the sort raises
sort_work_experience(r, cleaned) ==
    IF r.exc # "" THEN r
    ELSE IF k_work_experience \notin DOMAIN r.h[cleaned].d THEN r
    ELSE Returned(sort_experiences(r.h, cleaned,
                                   r.h[cleaned].d[k_work_experience]))

\* lines 269-272, n being int(exp['salary'].replace(',', ''))
set_salary(h, exp, n) ==
    Returned(setitem(h, exp.a, k_salary, IF n.exc # "" THEN PyNone ELSE n.v))

\* line 268 on, got being exp['salary']
convert_salary_value(h, exp, got) ==
    IF got.exc # "" THEN Raised(h, got.exc)
    ELSE IF ~is_str(got.v) THEN Returned(h)
    ELSE set_salary(h, exp, int_of_str(remove_char(got.v.s, ",")))

\* line 268 on, has being ('salary' in exp)
convert_salary_present(h, exp, has) ==
    IF has.exc # "" THEN Raised(h, has.exc)
    ELSE IF ~has.v THEN Returned(h)
    ELSE convert_salary_value(h, exp, getitem(h, exp, k_salary))

\* lines 267-272: the loop over the entries, from entry i on
RECURSIVE convert_salaries(_, _, _)
convert_salaries(r, exps, i) ==
    IF r.exc # "" \/ i > Len(exps) THEN r
    ELSE convert_salaries(
             convert_salary_present(r.h, exps[i], contains(r.h, exps[i], k_salary)),
             exps, i + 1)

\* lines 267-272, it being iter(cleaned['work_experience'])
convert_iterated(h, it) ==
    IF it.exc # "" THEN Raised(h, it.exc)
    ELSE convert_salaries(Returned(h), it.v, 1)

\* lines 266-272
convert_salary_step(r, cleaned) ==
    IF r.exc # "" THEN r
    ELSE IF k_work_experience \notin DOMAIN r.h[cleaned].d THEN r
    ELSE convert_iterated(r.h, iterate(r.h, r.h[cleaned].d[k_work_experience]))

\* the steps of clean on the copy at address cleaned
clean_steps(h, cleaned) ==
    convert_salary_step(
        sort_work_experience(
            normalize_gender(
                _normalize_dates(_trim_strings(h, PyRef(cleaned)), cleaned),
                cleaned),
            cleaned),
        cleaned)

\* line 274
clean_return(r, cleaned) ==
    IF r.exc # "" THEN r ELSE [h |-> r.h, exc |-> "", v |-> PyRef(cleaned)]

\* DataCleaner.clean(data), data the address of the caller's dict: the heap
\* it leaves, the exception it raised ("" if none) and the dict it returned
clean(h, data) ==
    clean_return(clean_steps(Append(h, h[data]), Len(h) + 1), Len(h) + 1)

-----------------------------------------------------------------------------
(* Column algebra: the two static methods applied to bounded inputs *)

MaxIndex == 730
MaxLabelLen == 2

Labels == UNION {[1 .. n -> Range(Upper)] : n \in 1 .. MaxLabelLen}

Idle == [pc |-> "idle"]

ColInit ==
    /\ col = [fn |-> "none"]
    /\ column_mapping = _create_column_mapping
    /\ heap = <<>>
    /\ cl = Idle
    /\ vd = Idle
    /\ store = <<>>
    /\ pr = Idle
    /\ clock = <<2024, 12, 18>>

col_frame == <<column_mapping, heap, cl, vd, store, pr, clock>>

CallIndexToColumn ==
    \E n \in 0 .. MaxIndex :
        /\ col.fn = "none"
        /\ col' = [fn |-> "_index_to_column", arg |-> n,
                   ret |-> _index_to_column(n)]
        /\ UNCHANGED col_frame

CallColumnToIndexOnResult ==
    /\ col.fn = "_index_to_column"
    /\ col' = [fn |-> "index_round_trip", arg |-> col.arg, label |-> col.ret,
               ret |-> _column_to_index(col.ret)]
    /\ UNCHANGED col_frame

CallColumnToIndex ==
    \E s \in Labels :
        /\ col.fn = "none"
        /\ col' = [fn |-> "_column_to_index", arg |-> s,
                   ret |-> _column_to_index(s)]
        /\ UNCHANGED col_frame

CallIndexToColumnOnResult ==
    /\ col.fn = "_column_to_index"
    /\ col' = [fn |-> "label_round_trip", arg |-> col.arg, index |-> col.ret,
               ret |-> _index_to_column(col.ret)]
    /\ UNCHANGED col_frame

ColNext ==
    \/ CallIndexToColumn
    \/ CallColumnToIndexOnResult
    \/ CallColumnToIndex
    \/ CallIndexToColumnOnResult

ColSpec == ColInit /\ [][ColNext]_vars

\* C8: _column_to_index(_index_to_column(n)) = n for every index n, and
\* _index_to_column(_column_to_index(s)) = s for every non-empty label s over
\* A..Z; _index_to_column gives "A" for 0, "Z" for 25 and "AA" for 26.
C8_ColumnRoundTrip ==
    /\ col.fn = "index_round_trip" => col.ret = col.arg
    /\ col.fn = "label_round_trip" => col.ret = col.arg
    /\ (col.fn = "_index_to_column" /\ col.arg = 0) => col.ret = <<"A">>
    /\ (col.fn = "_index_to_column" /\ col.arg = 25) => col.ret = <<"Z">>
    /\ (col.fn = "_index_to_column" /\ col.arg = 26) => col.ret = <<"A", "A">>

C8_Witness ==
    /\ col.fn = "index_round_trip"
    /\ col.arg = 26
    /\ col.label = <<"A", "A">>

\* C9: the column mapping has exactly 39 entries, the column of
\* work_experience[i].field_j is the label of (index of anchor i) + j, and no
\* two distinct field paths share a column.
C9_ColumnMapping ==
    /\ Cardinality(DOMAIN column_mapping) = 39
    /\ \A i \in 0 .. 4 : \A j \in 0 .. 5 :
          LET p == work_experience_path(i, WORK_EXPERIENCE_FIELDS[j + 1])
              anchor == << <<"J">>, <<"P">>, <<"V">>, <<"A", "B">>, <<"A", "H">> >>[i + 1]
          IN /\ p \in DOMAIN column_mapping
             /\ _column_to_index(column_mapping[p]) = _column_to_index(anchor) + j
    /\ column_mapping[work_experience_path(2, k_salary)] = <<"A", "A">>
    /\ column_mapping[work_experience_path(4, k_salary)] = <<"A", "M">>
    /\ Cardinality({column_mapping[p] : p \in DOMAIN column_mapping})
          = Cardinality(DOMAIN column_mapping)

C9_Witness ==
    /\ col.fn # "none"
    /\ work_experience_path(3, k_start_date) \in DOMAIN column_mapping
    /\ column_mapping[work_experience_path(3, k_start_date)] = <<"A", "B">>

-----------------------------------------------------------------------------
(* DataCleaner.clean applied to the records a caller can build, then to    *)
(* its own result.                                                         *)

MaxEntries == 6          \* work_experience entries, well-formed family
MaxMixedEntries == 4     \* work_experience entries, mixed start_date types

Absent == [t |-> "absent"]

\* a dict literal: the keys given a value
Document(f) ==
    DictTree([key \in {x \in DOMAIN f : f[x] # Absent} |-> f[key]])

Experience(start_date, end_date, company_name, salary) ==
    Document((k_start_date :> start_date) @@ (k_end_date :> end_date) @@
             (k_company_name :> company_name) @@ (k_salary :> salary))

Applicant(application_date, basic_info, work_experience) ==
    Document((k_applicant_name :> PyStr(<<" ", "A">>)) @@
             (k_application_date :> application_date) @@
             (k_basic_info :> basic_info) @@
             (k_work_experience :> work_experience))

d_2019_01 == PyStr(<<"2", "0", "1", "9", "-", "0", "1">>)
d_2020_03 == PyStr(<<"2", "0", "2", "0", "-", "0", "3">>)
d_2022_06 == PyStr(<<"2", "0", "2", "2", "-", "0", "6">>)
d_2022_06_dotted == PyStr(<<" ", "2", "0", "2", "2", ".", "0", "6">>)
d_202003 == PyStr(<<"2", "0", "2", "0", "0", "3">>)
d_present == PyStr(<<"P", "r", "e", "s", "e", "n", "t">>)
d_2024_12_19 ==
    PyStr(<<"2", "0", "2", "4", "-", "1", "2", "-", "1", "9">>)
d_2024_12_15_dotted ==
    PyStr(<<" ", "2", "0", "2", "4", ".", "1", "2", ".", "1", "5", " ">>)
d_20241215 == PyStr(<<"2", "0", "2", "4", "1", "2", "1", "5">>)
s_1000 == PyStr(<<" ", "1", ",", "0", "0", "0">>)
s_abc == PyStr(<<"a", "b", "c">>)
s_X == PyStr(<<"X">>)
s_Y == PyStr(<<"Y">>)

BasicInfo(gender) ==
    Document((k_birth_year :> PyStr(<<"1", "9", "9", "0">>)) @@
             (k_gender :> gender))

\* entries whose start_date is a str or absent
OrderedEntries ==
    { Experience(d_2019_01, d_2020_03, s_X, PyInt(3000)),
      Experience(d_2022_06_dotted, d_present, s_X, s_1000),
      Experience(d_2022_06, Absent, s_Y, s_abc) }

\* entries whose start_date may be of any type
MixedEntries ==
    { Experience(PyNone, Absent, s_X, Absent),
      Experience(PyStr(<<>>), Absent, s_X, Absent),
      Experience(d_2019_01, Absent, s_X, Absent),
      Experience(d_2020_03, Absent, s_Y, Absent),
      Experience(Absent, Absent, s_X, Absent) }

\* more than five entries, one of them with a start_date of None
SixMixedEntries ==
    << Experience(d_2019_01, Absent, s_X, Absent),
       Experience(PyNone, Absent, s_X, Absent),
       Experience(d_2020_03, Absent, s_Y, Absent),
       Experience(d_2019_01, Absent, s_Y, Absent),
       Experience(d_2022_06, Absent, s_X, Absent),
       Experience(d_2020_03, Absent, s_X, Absent) >>

SeqsUpTo(S, n) == UNION {[1 .. m -> S] : m \in 0 .. n}

ApplicationDates ==
    {Absent, PyNone, PyInt(20241215), d_2024_12_15_dotted, d_20241215,
     d_2024_12_19}

BasicInfos ==
    { Absent, PyNone, PyStr(k_gender), s_abc, ListTree(<<PyStr(k_gender)>>),
      BasicInfo(Absent), BasicInfo(PyStr(<<"M">>)),
      BasicInfo(PyStr(<<" ", "m", "a", "l", "e">>)), BasicInfo(s_abc),
      BasicInfo(ListTree(<<>>)) }

WorkExperiences ==
    { Absent, PyNone, PyInt(3), s_abc,
      Document(k_start_date :> d_2019_01),
      ListTree(<<PyNone>>), ListTree(<<PyStr(k_start_date)>>),
      ListTree(<<PyStr(<<" ", "x", " ">>)>>),
      ListTree(<<Experience(d_202003, d_present, s_X, s_abc)>>),
      ListTree(<<Experience(d_2019_01, PyInt(202003), s_X, s_1000),
                 Document(k_salary :> PyStr(<<"1", "_", "0">>))>>) }

CleanInputs ==
    {Applicant(d_2024_12_15_dotted, BasicInfo(PyStr(<<"F">>)), ListTree(q)) :
         q \in SeqsUpTo(OrderedEntries, MaxEntries)}
    \cup
    {Applicant(d_2024_12_19, Absent, ListTree(q)) :
         q \in SeqsUpTo(MixedEntries, MaxMixedEntries)}
    \cup
    {Applicant(d_2024_12_19, Absent, ListTree(SixMixedEntries))}
    \cup
    {Applicant(a, b, w) :
         a \in ApplicationDates, b \in BasicInfos, w \in WorkExperiences}

\* the items of data['work_experience'] when it is a list, in order
entries_of(h, data) ==
    IF k_work_experience \notin DOMAIN h[data].d THEN <<>>
    ELSE IF ~is_list(h, h[data].d[k_work_experience]) THEN <<>>
    ELSE h[h[data].d[k_work_experience].a].l

\* the caller's record, allocated
CleanInit ==
    /\ col = [fn |-> "none"]
    /\ column_mapping = _create_column_mapping
    /\ \E doc \in CleanInputs :
          /\ heap = alloc(<<>>, doc).h
          /\ cl = [pc |-> "start", data |-> PyRef(Len(heap)), before |-> doc,
                   entries |-> entries_of(heap, Len(heap))]
    /\ vd = Idle
    /\ store = <<>>
    /\ pr = Idle
    /\ clock = <<2024, 12, 18>>

clean_frame == <<col, column_mapping, vd, store, pr, clock>>

\* cleaned = DataCleaner.clean(data), r being its outcome
CleanReturns(r) ==
    /\ heap' = r.h
    /\ cl' = IF r.exc # ""
             THEN [pc |-> "raised", data |-> cl.data, before |-> cl.before,
                   entries |-> cl.entries, exc |-> r.exc]
             ELSE [pc |-> "cleaned", data |-> cl.data, before |-> cl.before,
                   entries |-> cl.entries, ret |-> r.v,
                   first |-> deep(r.h, r.v)]

Clean ==
    /\ cl.pc = "start"
    /\ CleanReturns(clean(heap, cl.data.a))
    /\ UNCHANGED clean_frame

\* DataCleaner.clean(cleaned), r being its outcome
CleanAgainReturns(r) ==
    /\ heap' = r.h
    /\ cl' = IF r.exc # ""
             THEN [pc |-> "raised_again", data |-> cl.data,
                   before |-> cl.before, entries |-> cl.entries,
                   first |-> cl.first, exc |-> r.exc]
             ELSE [pc |-> "cleaned_again", data |-> cl.data,
                   before |-> cl.before, entries |-> cl.entries,
                   first |-> cl.first, second |-> deep(r.h, r.v)]

CleanAgain ==
    /\ cl.pc = "cleaned"
    /\ CleanAgainReturns(clean(heap, cl.ret.a))
    /\ UNCHANGED clean_frame

CleanNext == Clean \/ CleanAgain

CleanSpec == CleanInit /\ [][CleanNext]_vars

-----------------------------------------------------------------------------
(* Properties of DataCleaner.clean, checked under CleanSpec.               *)

\* C3: after clean(record) returns, the caller's record equals, at every
\* depth, what it was before the call.
C3_CallerRecordUnchanged ==
    cl.pc = "cleaned" => deep(heap, cl.data) = cl.before

\* C4: clean returns a record for every record; it never raises.
C4_CleanNeverRaises == cl.pc # "raised"

\* C5: whenever clean(x) returns, clean(clean(x)) returns too and equals
\* clean(x) at every depth.
C5_CleanIdempotent ==
    /\ cl.pc # "raised_again"
    /\ cl.pc = "cleaned_again" => cl.second = cl.first

\* six entries cut to five, two of them tied after normalization, cleaned
\* a second time
C5_Witness ==
    /\ cl.pc = "cleaned_again"
    /\ Len(cl.entries) = 6
    /\ cl.first # cl.before
    /\ Len(cl.first.d[k_work_experience].l) = 5
    /\ \E i \in 1 .. 4 :
          /\ cl.first.d[k_work_experience].l[i] #
                 cl.first.d[k_work_experience].l[i + 1]
          /\ cl.first.d[k_work_experience].l[i].d[k_start_date] =
                 cl.first.d[k_work_experience].l[i + 1].d[k_start_date]

\* the record's work_experience is a list of dicts whose start_date is a
\* str or absent
C6_Covered ==
    /\ k_work_experience \in DOMAIN cl.before.d
    /\ cl.before.d[k_work_experience].t = "list"
    /\ \A i \in DOMAIN cl.before.d[k_work_experience].l :
          /\ cl.before.d[k_work_experience].l[i].t = "dict"
          /\ k_start_date \in DOMAIN cl.before.d[k_work_experience].l[i].d
                => cl.before.d[k_work_experience].l[i].d[k_start_date].t = "str"

\* the entries of the returned record's work_experience
C6_Cleaned == heap[heap[cl.ret.a].d[k_work_experience].a].l

\* the position an entry had in the caller's list
C6_InputPosition(x) == CHOOSE i \in DOMAIN cl.entries : cl.entries[i] = x

C6_HasStartDate(x) == k_start_date \in DOMAIN heap[x.a].d

\* x's start_date is lower than y's, an absent one being below every str
C6_LowerAbsentLowest(x, y) ==
    IF ~C6_HasStartDate(y) THEN FALSE
    ELSE IF ~C6_HasStartDate(x) THEN TRUE
    ELSE str_lt(heap[x.a].d[k_start_date].s, heap[y.a].d[k_start_date].s)

C6_KeyAbsentDefault(x) ==
    IF C6_HasStartDate(x) THEN heap[x.a].d[k_start_date].s
    ELSE <<"0", "0", "0", "0", "-", "0", "0">>

\* x's start_date is lower than y's, an absent one counting as '0000-00'
C6_LowerAbsentDefault(x, y) ==
    str_lt(C6_KeyAbsentDefault(x), C6_KeyAbsentDefault(y))

\* at most 5 of the caller's entries, none twice, in non-increasing order,
\* ties in input order, nothing dropped that is greater than something kept
C6_TopFiveDescending(Below(_, _)) ==
    /\ Len(C6_Cleaned) <= 5
    /\ Len(cl.entries) <= 5 => Len(C6_Cleaned) = Len(cl.entries)
    /\ \A i \in DOMAIN C6_Cleaned :
          \E j \in DOMAIN cl.entries : cl.entries[j] = C6_Cleaned[i]
    /\ \A i, j \in DOMAIN C6_Cleaned :
          i < j =>
            /\ C6_Cleaned[i] # C6_Cleaned[j]
            /\ ~Below(C6_Cleaned[i], C6_Cleaned[j])
            /\ ~Below(C6_Cleaned[j], C6_Cleaned[i])
                  => C6_InputPosition(C6_Cleaned[i]) <
                         C6_InputPosition(C6_Cleaned[j])
    /\ \A j \in DOMAIN cl.entries :
          (\A i \in DOMAIN C6_Cleaned : C6_Cleaned[i] # cl.entries[j])
             => \A i \in DOMAIN C6_Cleaned :
                    ~Below(C6_Cleaned[i], cl.entries[j])

\* C6 as stated: the cleaned work_experience is the top five in
\* non-increasing start_date order, stable, an absent start_date being the
\* lowest value.
C6_AbsentSortsLowest ==
    (cl.pc = "cleaned" /\ C6_Covered)
       => C6_TopFiveDescending(C6_LowerAbsentLowest)

\* C6 amended: the same, an absent start_date sorting as the string
\* '0000-00' (above any str that compares below '0000-00', the empty one
\* included).
C6_AbsentSortsAsDefault ==
    (cl.pc = "cleaned" /\ C6_Covered)
       => C6_TopFiveDescending(C6_LowerAbsentDefault)

\* six entries out of order, one dropped, a tie among those kept
C6_Witness ==
    /\ cl.pc = "cleaned"
    /\ C6_Covered
    /\ Len(cl.entries) = 6
    /\ Len(C6_Cleaned) = 5
    /\ C6_Cleaned # SubSeq(cl.entries, 1, 5)
    /\ \E i \in 1 .. 4 :
          /\ ~C6_LowerAbsentDefault(C6_Cleaned[i + 1], C6_Cleaned[i])
          /\ heap[C6_Cleaned[i].a] # heap[C6_Cleaned[i + 1].a]

\* the record's work_experience is a list of two or more dicts, one of them
\* with a start_date of None: the sort compares None with another key
C15_SortFails ==
    /\ k_work_experience \in DOMAIN cl.before.d
    /\ cl.before.d[k_work_experience].t = "list"
    /\ Len(cl.before.d[k_work_experience].l) > 1
    /\ \A i \in DOMAIN cl.before.d[k_work_experience].l :
          cl.before.d[k_work_experience].l[i].t = "dict"
    /\ \E i \in DOMAIN cl.before.d[k_work_experience].l :
          /\ k_start_date \in DOMAIN cl.before.d[k_work_experience].l[i].d
          /\ cl.before.d[k_work_experience].l[i].d[k_start_date] = PyNone

\* C15: when the sort of work_experience fails on a comparison, clean
\* returns, the entries are in their original order, and the list is cut to
\* its first 5 entries.
C15_FailedSortKeepsOrder ==
    (C15_SortFails /\ cl.pc # "start") =>
        /\ cl.pc \in {"cleaned", "cleaned_again", "raised_again"}
        /\ cl.first.d[k_work_experience].l =
              SubSeq(cl.before.d[k_work_experience].l, 1,
                     IF Len(cl.entries) > 5 THEN 5 ELSE Len(cl.entries))

\* no str anywhere in the value v begins or ends with whitespace
RECURSIVE C16_Trimmed(_)
C16_Trimmed(v) ==
    CASE v.t = "str" -> strip(v.s) = v.s
      [] v.t = "dict" -> \A key \in DOMAIN v.d : C16_Trimmed(v.d[key])
      [] v.t = "list" -> \A i \in DOMAIN v.l : C16_Trimmed(v.l[i])
      [] OTHER -> TRUE

\* C16: in the record clean returns, no str has leading or trailing
\* whitespace, be it a value of a dict or an element of a list, at any
\* depth.
C16_EveryStringTrimmed ==
    cl.pc = "cleaned" => C16_Trimmed(cl.first)

-----------------------------------------------------------------------------
(* ApplicantDataValidator.  A message is a str: its fixed text is one      *)
(* element, the formatted values are spelled out.  A rule group gives      *)
(* [e, w, exc]: the errors and warnings it appended, in order, and the     *)
(* exception that ended it ("" when it returned).                          *)

Report(e, w) == [e |-> e, w |-> w, exc |-> ""]
Aborted(e, w, exc) == [e |-> e, w |-> w, exc |-> exc]
NoFinding == Report(<<>>, <<>>)
Error(text) == Report(<<PyStr(text)>>, <<>>)
Warning(text) == Report(<<>>, <<PyStr(text)>>)

\* a, then b unless a raised
then(a, b) ==
    IF a.exc # "" THEN a
    ELSE [e |-> a.e \o b.e, w |-> a.w \o b.w, exc |-> b.exc]

\* str(v) inside an f-string
format(v) ==
    CASE v.t = "str" -> v.s
      [] v.t = "int" -> str_int(v.n)
      [] v.t = "none" -> <<"N", "o", "n", "e">>

\* f'{n:,}' for n >= 0
RECURSIVE format_grouped(_)
format_grouped(n) ==
    IF n < 1000 THEN str_int(n)
    ELSE format_grouped(n \div 1000) \o <<",">> \o
         SubSeq(str_int(1000 + (n % 1000)), 2, 4)

\* d.get(key, default)
get(h, d, key, default) ==
    IF ~is_dict(h, d) THEN Raise("AttributeError")
    ELSE IF key \in DOMAIN h[d.a].d THEN Ok(h[d.a].d[key])
    ELSE Ok(default)

\* s.split(sep): the pieces before position i are in done, piece the one
\* being read
RECURSIVE split_loop(_, _, _, _, _)
split_loop(s, sep, i, piece, done) ==
    IF i > Len(s) THEN Append(done, piece)
    ELSE IF s[i] = sep THEN split_loop(s, sep, i + 1, <<>>, Append(done, piece))
    ELSE split_loop(s, sep, i + 1, Append(piece, s[i]), done)
split(s, sep) == split_loop(s, sep, 1, <<>>, <<>>)

\* ApplicantDataValidator._get_nested_value, from key i of keys on
RECURSIVE validator_nested_value(_, _, _, _)
validator_nested_value(h, value, keys, i) ==
    IF i > Len(keys) THEN value
    ELSE IF ~is_dict(h, value) THEN PyNone
    ELSE IF keys[i] \notin DOMAIN h[value.a].d THEN PyNone
    ELSE IF h[value.a].d[keys[i]] = PyNone THEN PyNone
    ELSE validator_nested_value(h, h[value.a].d[keys[i]], keys, i + 1)
validator_get_nested_value(h, data, path) ==
    validator_nested_value(h, data, split(path, "."), 1)

\* the required fields, applicant_number not among them
required_fields_without_number ==
    <<k_applicant_name, k_application_date,
      basic_info_path(k_birth_year), basic_info_path(k_gender),
      basic_info_path(k_final_education_school),
      basic_info_path(k_final_education_degree)>>

required_fields ==
    <<k_applicant_number, k_applicant_name, k_application_date,
      basic_info_path(k_birth_year), basic_info_path(k_gender),
      basic_info_path(k_final_education_school),
      basic_info_path(k_final_education_degree)>>

\* lines 61-63, from field i on
RECURSIVE required_from(_, _, _)
required_from(h, data, i) ==
    IF i > Len(required_fields) THEN NoFinding
    ELSE then(IF truthy(h, validator_get_nested_value(h, data, required_fields[i]))
              THEN NoFinding
              ELSE Error(<<"pilsu pildeu nurak: ">> \o required_fields[i]),
              required_from(h, data, i + 1))
_validate_required_fields(h, data) == required_from(h, data, 1)

\* re.match(r'\d', c), on the characters of this model
is_decimal(c) == c \in Range(Digits)
all_decimal(s, from, to) == \A i \in from .. to : is_decimal(s[i])
\* re.match(r'^\d{4}$', s)
matches_year(s) == Len(s) = 4 /\ all_decimal(s, 1, 4)
\* re.match(r'^\d{4}-\d{2}$', s)
matches_year_month(s) ==
    Len(s) = 7 /\ all_decimal(s, 1, 4) /\ s[5] = "-" /\ all_decimal(s, 6, 7)
\* re.match(r'^\d{4}-\d{2}-\d{2}$', s)
matches_date(s) ==
    /\ Len(s) = 10
    /\ all_decimal(s, 1, 4) /\ s[5] = "-" /\ all_decimal(s, 6, 7)
    /\ s[8] = "-" /\ all_decimal(s, 9, 10)

\* the directive %m of strptime: 1[0-2]|0[1-9]|[1-9]
is_month_text(s) ==
    \/ Len(s) = 1 /\ is_decimal(s[1]) /\ s[1] # "0"
    \/ Len(s) = 2 /\ s[1] = "0" /\ is_decimal(s[2]) /\ s[2] # "0"
    \/ Len(s) = 2 /\ s[1] = "1" /\ s[2] \in {"0", "1", "2"}
\* the directive %d of strptime: 3[0-1]|[1-2]\d|0[1-9]|[1-9]| [1-9]
is_day_text(s) ==
    \/ Len(s) = 1 /\ is_decimal(s[1]) /\ s[1] # "0"
    \/ Len(s) = 2 /\ s[1] \in {"0", " "} /\ is_decimal(s[2]) /\ s[2] # "0"
    \/ Len(s) = 2 /\ s[1] \in {"1", "2"} /\ is_decimal(s[2])
    \/ Len(s) = 2 /\ s[1] = "3" /\ s[2] \in {"0", "1"}

\* int(s[from:to]) on decimal digits
int_of_digits(s, from, to) == digits_value(SubSeq(s, from, to), 0)

is_leap(year) == year % 4 = 0 /\ (year % 100 # 0 \/ year % 400 = 0)
days_in_month(year, month) ==
    IF month = 2 THEN (IF is_leap(year) THEN 29 ELSE 28)
    ELSE IF month \in {4, 6, 9, 11} THEN 30 ELSE 31

\* datetime.strptime(v, '%Y-%m'): the date as <<year, month, day>>
strptime_month(v) ==
    IF ~is_str(v) THEN Raise("TypeError")
    ELSE IF Len(v.s) < 6 \/ Len(v.s) > 7 THEN Raise("ValueError")
    ELSE IF ~(all_decimal(v.s, 1, 4) /\ v.s[5] = "-"
              /\ is_month_text(SubSeq(v.s, 6, Len(v.s))))
    THEN Raise("ValueError")
    ELSE IF int_of_digits(v.s, 1, 4) < 1 THEN Raise("ValueError")
    ELSE Ok(<<int_of_digits(v.s, 1, 4),
              int_of_digits(v.s, 6, Len(v.s)), 1>>)

\* datetime.strptime(v, '%Y-%m-%d') for a v that matches_date
strptime_day(v) ==
    IF ~is_str(v) THEN Raise("TypeError")
    ELSE IF ~(is_month_text(SubSeq(v.s, 6, 7)) /\ is_day_text(SubSeq(v.s, 9, 10)))
    THEN Raise("ValueError")
    ELSE IF \/ int_of_digits(v.s, 1, 4) < 1
            \/ int_of_digits(v.s, 9, 10) >
                 days_in_month(int_of_digits(v.s, 1, 4),
                               int_of_digits(v.s, 6, 7))
    THEN Raise("ValueError")
    ELSE Ok(<<int_of_digits(v.s, 1, 4), int_of_digits(v.s, 6, 7),
              int_of_digits(v.s, 9, 10)>>)

\* a > b on two dates
date_gt(a, b) ==
    \/ a[1] > b[1]
    \/ a[1] = b[1] /\ a[2] > b[2]
    \/ a[1] = b[1] /\ a[2] = b[2] /\ a[3] > b[3]

VALID_GENDERS == {<<"nam">>, <<"yeo">>, <<"gi", "ta">>}   \* '남', '여', '기타'
VALID_DEGREES ==                 \* '고졸', '전문학사', '학사', '석사', '박사', '기타'
    {<<"go", "jol">>, <<"jeon", "mun", "hak", "sa">>, <<"hak", "sa">>,
     <<"seok", "sa">>, <<"bak", "sa">>, <<"gi", "ta">>}
MIN_BIRTH_YEAR == 1940
HIGH_SALARY == 1000000

\* value not in a list of str
not_in(value, strs) == ~(is_str(value) /\ value.s \in strs)

\* int(birth_year) for a birth_year whose str is four digits
birth_year_value(birth_year) == int_of_digits(format(birth_year), 1, 4)

\* lines 70-78
check_birth_year(h, birth_year, today) ==
    IF ~truthy(h, birth_year) THEN NoFinding
    ELSE IF ~matches_year(format(birth_year))
    THEN Error(<<"chulsaengnyeondo hyeongsik oryu: '">> \o format(birth_year)
               \o <<"' (YYYY)">>)
    ELSE IF \/ birth_year_value(birth_year) < MIN_BIRTH_YEAR
            \/ birth_year_value(birth_year) > today[1]
    THEN Warning(<<"chulsaengnyeondoga bijeongsangjeogim: ">>
                 \o format(birth_year))
    ELSE NoFinding

\* lines 81-84
check_gender(h, gender) ==
    IF truthy(h, gender) /\ not_in(gender, VALID_GENDERS)
    THEN Error(<<"seongbyeol gap oryu: '">> \o format(gender)
               \o <<"' (heoyong)">>)
    ELSE NoFinding

\* lines 87-90
check_degree(h, degree) ==
    IF truthy(h, degree) /\ not_in(degree, VALID_DEGREES)
    THEN Warning(<<"hangnyeok gabi pyojungwa dareum: '">> \o format(degree)
                 \o <<"' (gwonjang)">>)
    ELSE NoFinding

\* lines 69-90, basic_info being data.get('basic_info', {})
validate_basic_info_of(h, basic_info, today) ==
    IF ~is_dict(h, basic_info) THEN Aborted(<<>>, <<>>, "AttributeError")
    ELSE then(check_birth_year(h, get(h, basic_info, k_birth_year, PyStr(<<>>)).v,
                               today),
         then(check_gender(h, get(h, basic_info, k_gender, PyStr(<<>>)).v),
              check_degree(h, get(h, basic_info, k_final_education_degree,
                                  PyStr(<<>>)).v)))

_validate_basic_info(h, data, today) ==
    IF k_basic_info \notin DOMAIN h[data.a].d THEN NoFinding
    ELSE validate_basic_info_of(h, h[data.a].d[k_basic_info], today)

\* f"경력 {exp_num}: ..."
experience_message(exp_num, text) ==
    <<"gyeongnyeok ">> \o str_int(exp_num) \o <<": ">> \o text

\* lines 109-112: the required fields of an entry
check_entry_required(h, exp, exp_num) ==
    then(IF truthy(h, get(h, exp, k_start_date, PyNone).v) THEN NoFinding
         ELSE Error(experience_message(exp_num, <<"ipsanyeonwol nurak">>)),
         IF truthy(h, get(h, exp, k_company_name, PyNone).v) THEN NoFinding
         ELSE Error(experience_message(exp_num, <<"hoesamyeong nurak">>)))

\* lines 115-117
check_start_date(h, start_date, exp_num) ==
    IF truthy(h, start_date) /\ ~matches_year_month(format(start_date))
    THEN Error(experience_message(exp_num,
                   <<"ipsanyeonwol hyeongsik oryu '">> \o format(start_date)
                   \o <<"' (YYYY-MM)">>))
    ELSE NoFinding

\* lines 120-123
check_end_date(h, end_date, exp_num) ==
    IF /\ truthy(h, end_date) /\ end_date # PyStr(ONGOING)
       /\ ~matches_year_month(format(end_date))
    THEN Error(experience_message(exp_num,
                   <<"toesanyeonwol hyeongsik oryu '">> \o format(end_date)
                   \o <<"' (YYYY-MM / jaejikjung)">>))
    ELSE NoFinding

\* lines 127-133, start and end being what strptime gave
compare_dates(start, end, exp_num) ==
    IF start.exc = "ValueError" THEN NoFinding
    ELSE IF start.exc # "" THEN Aborted(<<>>, <<>>, start.exc)
    ELSE IF end.exc = "ValueError" THEN NoFinding
    ELSE IF end.exc # "" THEN Aborted(<<>>, <<>>, end.exc)
    ELSE IF date_gt(start.v, end.v)
    THEN Error(experience_message(exp_num,
                   <<"ipsairi toesailboda neujeum">>))
    ELSE NoFinding

\* lines 126-133
check_date_logic(h, start_date, end_date, exp_num) ==
    IF truthy(h, start_date) /\ truthy(h, end_date)
       /\ end_date # PyStr(ONGOING)
    THEN compare_dates(strptime_month(start_date), strptime_month(end_date),
                       exp_num)
    ELSE NoFinding

\* lines 136-143
check_salary(salary, exp_num) ==
    IF salary = PyNone THEN NoFinding
    ELSE IF salary.t # "int"
    THEN Error(experience_message(exp_num, <<"yeonbongeun sutjayeoya ham">>))
    ELSE IF salary.n < 0
    THEN Error(experience_message(exp_num, <<"yeonbongeun 0 isang">>))
    ELSE IF salary.n > HIGH_SALARY
    THEN Warning(experience_message(exp_num,
                     <<"yeonbongi maeu nopeum (">> \o format_grouped(salary.n)
                     \o <<"cheonwon)">>))
    ELSE NoFinding

_validate_single_experience(h, exp, exp_num) ==
    IF ~is_dict(h, exp) THEN Aborted(<<>>, <<>>, "AttributeError")
    ELSE then(check_entry_required(h, exp, exp_num),
         then(check_start_date(h, get(h, exp, k_start_date, PyStr(<<>>)).v,
                               exp_num),
         then(check_end_date(h, get(h, exp, k_end_date, PyNone).v, exp_num),
         then(check_date_logic(h, get(h, exp, k_start_date, PyStr(<<>>)).v,
                               get(h, exp, k_end_date, PyNone).v, exp_num),
              check_salary(get(h, exp, k_salary, PyNone).v, exp_num)))))

\* lines 103-104: the loop over experiences[:5], from entry i on
RECURSIVE validate_experiences(_, _, _)
validate_experiences(h, experiences, i) ==
    IF i > Len(experiences) THEN NoFinding
    ELSE then(_validate_single_experience(h, experiences[i], i),
              validate_experiences(h, experiences, i + 1))

\* lines 96-104, experiences being data.get('work_experience', [])
validate_work_experience_of(h, experiences) ==
    IF ~is_list(h, experiences)
    THEN Error(<<"work_experienceneun baeyeoriyeoya hamnida">>)
    ELSE then(IF Len(h[experiences.a].l) > WORK_EXPERIENCE_COUNT
              THEN Warning(<<"gyeongnyeogi 5gaereul chogwaham (">>
                           \o str_int(Len(h[experiences.a].l))
                           \o <<"gae)">>)
              ELSE NoFinding,
              validate_experiences(
                  h, slice_to(h[experiences.a].l, WORK_EXPERIENCE_COUNT), 1))

_validate_work_experience(h, data) ==
    IF k_work_experience \notin DOMAIN h[data.a].d THEN NoFinding
    ELSE validate_work_experience_of(h, h[data.a].d[k_work_experience])

\* lines 152-158, parsed being what strptime gave
check_calendar_date(app_date, parsed, today) ==
    IF parsed.exc = "ValueError"
    THEN Error(<<"jiwonil naljja gap oryu: '">> \o format(app_date) \o <<"'">>)
    ELSE IF parsed.exc # "" THEN Aborted(<<>>, <<>>, parsed.exc)
    ELSE IF date_gt(parsed.v, today)
    THEN Warning(<<"jiwoniri mirae naljjaim: ">> \o format(app_date))
    ELSE NoFinding

\* lines 149-158, app_date being data.get('application_date', '')
validate_dates_of(h, app_date, today) ==
    IF ~truthy(h, app_date) THEN NoFinding
    ELSE IF ~matches_date(format(app_date))
    THEN Error(<<"jiwonil hyeongsik oryu: '">> \o format(app_date)
               \o <<"' (YYYY-MM-DD)">>)
    ELSE check_calendar_date(app_date, strptime_day(app_date), today)

_validate_dates(h, data, today) ==
    validate_dates_of(h, get(h, data, k_application_date, PyStr(<<>>)).v, today)

string_fields ==
    <<k_applicant_number, k_applicant_name, k_application_date,
      k_affiliation, k_application_field>>

\* lines 171-174, from field i on
RECURSIVE check_string_fields(_, _, _)
check_string_fields(h, data, i) ==
    IF i > Len(string_fields) THEN NoFinding
    ELSE then(IF get(h, data, string_fields[i], PyNone).v.t \in {"none", "str"}
              THEN NoFinding
              ELSE Error(<<"'">> \o string_fields[i]
                         \o <<"' pildeuneun munjayeorieoya ham">>),
              check_string_fields(h, data, i + 1))

_validate_data_types(h, data) ==
    then(check_string_fields(h, data, 1),
         IF k_basic_info \in DOMAIN h[data.a].d
            /\ ~is_dict(h, h[data.a].d[k_basic_info])
         THEN Error(<<"basic_infoneun gaekcheyeoya ham">>)
         ELSE NoFinding)

\* lines 30-43: the five rule groups in order
rule_groups(h, data, today) ==
    then(_validate_required_fields(h, data),
    then(_validate_basic_info(h, data, today),
    then(_validate_work_experience(h, data),
    then(_validate_dates(h, data, today),
         _validate_data_types(h, data)))))

\* ApplicantDataValidator(strict_mode): the instance, its two lists allocated
validator_init(h, strict_mode) ==
    [h |-> h \o <<List(<<>>), List(<<>>)>>,
     self |-> [strict_mode |-> strict_mode, errors |-> PyRef(Len(h) + 1),
               warnings |-> PyRef(Len(h) + 2)]]

\* validate without lines 27-28: the lists of the previous call are kept
keep_lists(h, self) == [h |-> h, self |-> self]

\* lines 27-28: self.errors = []; self.warnings = []
reset_lists(h, self) == validator_init(h, self.strict_mode)

\* self.errors.append(...), self.warnings.append(...) for what was found
append_findings(h, self, found) ==
    [h EXCEPT ![self.errors.a] = List(h[self.errors.a].l \o found.e),
              ![self.warnings.a] = List(h[self.warnings.a].l \o found.w)]

\* the flag of strict mode taken from both lists
validate_return_counting_warnings(h, self, exc) ==
    IF exc # "" THEN [h |-> h, self |-> self, exc |-> exc]
    ELSE [h |-> h, self |-> self, exc |-> "",
          is_valid |-> IF self.strict_mode
                       THEN Len(h[self.errors.a].l) + Len(h[self.warnings.a].l) = 0
                       ELSE TRUE,
          errors |-> self.errors, warnings |-> self.warnings]

\* lines 45-47, h being the heap the rule groups left
validate_return(h, self, exc) ==
    IF exc # "" THEN [h |-> h, self |-> self, exc |-> exc]
    ELSE [h |-> h, self |-> self, exc |-> "",
          is_valid |-> IF self.strict_mode THEN Len(h[self.errors.a].l) = 0
                       ELSE TRUE,
          errors |-> self.errors, warnings |-> self.warnings]

validate_found(r, found) ==
    validate_return(append_findings(r.h, r.self, found), r.self, found.exc)

\* self.validate(data) at the date today: the heap and the instance it
\* leaves, and the exception it raised or the tuple it returned
validate(h, self, data, today) ==
    validate_found(reset_lists(h, self),
                   rule_groups(h, data, today))

-----------------------------------------------------------------------------
(* One ApplicantDataValidator, validate called on it again and again.      *)

MaxCalls == 3

BasicInfoOf(birth_year, gender, school, degree) ==
    Document((k_birth_year :> birth_year) @@ (k_gender :> gender) @@
             (k_final_education_school :> school) @@
             (k_final_education_degree :> degree))

Resume(number, name, date, basic_info, work_experience) ==
    Document((k_applicant_number :> number) @@ (k_applicant_name :> name) @@
             (k_application_date :> date) @@ (k_basic_info :> basic_info) @@
             (k_work_experience :> work_experience))

d_bachelor == PyStr(<<"hak", "sa">>)                         \* '학사'
GoodBasicInfo == BasicInfoOf(PyStr(<<"1", "9", "9", "0">>), PyStr(MALE), s_X,
                             d_bachelor)
GoodEntry == Experience(d_2019_01, d_2020_03, s_X, PyInt(3000))

ValidateInputs ==
    { \* nothing to report but, before the 19th, a date in the future
      Resume(PyStr(<<"7">>), s_X, d_2024_12_19, GoodBasicInfo,
             ListTree(<<GoodEntry>>)),
      \* every required field missing
      Document(<<>>),
      \* findings of the basic_info and work_experience groups
      Resume(Absent, PyStr(<<>>), d_20241215,
             BasicInfoOf(PyInt(1930), PyStr(<<"M">>), Absent, s_abc),
             ListTree(<<Experience(d_2020_03, d_2019_01, Absent, s_abc),
                        Experience(d_2022_06_dotted, PyStr(ONGOING), s_X,
                                   PyInt(0 - 1)),
                        Experience(Absent, d_202003, s_Y, PyInt(2000000)),
                        GoodEntry, GoodEntry, GoodEntry>>)),
      \* no such day; a name that is not a str; not a list
      Resume(PyStr(<<"7">>), PyInt(5),
             PyStr(<<"2", "0", "2", "4", "-", "0", "2", "-", "3", "0">>),
             BasicInfoOf(PyStr(<<"1", "9", "x", "0">>), PyStr(FEMALE), s_X,
                         d_bachelor),
             PyInt(3)),
      \* basic_info that is not a dict: basic_info.get raises
      Resume(Absent, s_X, d_2024_12_19, s_abc, ListTree(<<GoodEntry>>)),
      \* a start_date that is not a str: strptime raises
      Resume(PyStr(<<"7">>), s_X, d_2024_12_19, GoodBasicInfo,
             ListTree(<<Experience(PyInt(202003), d_2020_03, s_X, Absent)>>)),
      \* an entry that is not a dict: exp.get raises
      Resume(PyStr(<<"7">>), s_X, Absent, GoodBasicInfo,
             ListTree(<<GoodEntry, PyNone>>)),
      \* no error, and a degree that is not one of the standard ones
      Resume(PyStr(<<"7">>), s_X, d_2024_12_19,
             BasicInfoOf(PyStr(<<"1", "9", "9", "0">>), PyStr(MALE), s_X,
                         s_abc),
             Absent) }

Todays == {<<2024, 12, 18>>, <<2024, 12, 19>>}

ValidateInit ==
    /\ col = [fn |-> "none"]
    /\ column_mapping = _create_column_mapping
    /\ cl = Idle
    /\ store = <<>>
    /\ pr = Idle
    /\ clock \in Todays
    /\ \E strict_mode \in BOOLEAN :
          /\ heap = validator_init(<<>>, strict_mode).h
          /\ vd = [self |-> validator_init(<<>>, strict_mode).self,
                   calls |-> <<>>]

\* what a call gave, with the contents its lists had when it returned
call_record(doc, r) ==
    IF r.exc # "" THEN [data |-> doc, exc |-> r.exc]
    ELSE [data |-> doc, exc |-> "", is_valid |-> r.is_valid,
          errors |-> r.errors, warnings |-> r.warnings,
          e |-> r.h[r.errors.a].l, w |-> r.h[r.warnings.a].l]

ValidateReturns(doc, r) ==
    /\ heap' = r.h
    /\ vd' = [self |-> r.self, calls |-> Append(vd.calls, call_record(doc, r))]

ValidateOn(doc, data) ==
    ValidateReturns(doc, validate(data.h, vd.self, data.v, clock))

\* validator.validate(data) on a record just decoded
Validate ==
    /\ Len(vd.calls) < MaxCalls
    /\ \E doc \in ValidateInputs : ValidateOn(doc, alloc(heap, doc))
    /\ UNCHANGED <<col, column_mapping, cl, store, pr, clock>>

ValidateNext == Validate

ValidateSpec == ValidateInit /\ [][ValidateNext]_vars

\* what ApplicantDataValidator(strict_mode).validate(doc) gives today
fresh_validate(doc, data, strict_mode) ==
    validate(data.h, validator_init(<<>>, strict_mode).self, data.v, clock)
fresh_call(doc, strict_mode) ==
    call_record(doc, fresh_validate(
                         doc, alloc(validator_init(<<>>, strict_mode).h, doc),
                         strict_mode))

\* C10: on a reused instance every call that returned gave the errors and
\* warnings (and flag) a fresh instance with the same strict flag gives for
\* that record, and the lists it returned still hold what they held then.
C10_ValidateStateless ==
    \A i \in DOMAIN vd.calls :
        vd.calls[i].exc = "" =>
            /\ heap[vd.calls[i].errors.a].l = vd.calls[i].e
            /\ heap[vd.calls[i].warnings.a].l = vd.calls[i].w
            /\ LET fresh == fresh_call(vd.calls[i].data, vd.self.strict_mode)
               IN /\ vd.calls[i].e = fresh.e
                  /\ vd.calls[i].w = fresh.w
                  /\ vd.calls[i].is_valid = fresh.is_valid

\* a call with errors and warnings, then a call that raised, then a call
\* with nothing to report
C10_Witness ==
    /\ Len(vd.calls) = 3
    /\ vd.calls[1].exc = "" /\ Len(vd.calls[1].e) > 3 /\ vd.calls[1].w # <<>>
    /\ vd.calls[2].exc # ""
    /\ vd.calls[3].exc = "" /\ vd.calls[3].e = <<>> /\ vd.calls[3].w = <<>>

\* the record has a basic_info that is not a dict
C11_BasicInfoNotMapping(doc) ==
    k_basic_info \in DOMAIN doc.d /\ doc.d[k_basic_info].t # "dict"

\* C11: validate returns a report on every record, no rule group keeping a
\* later one from running; on a record whose basic_info is present but not
\* a dict the errors include the basic_info type error.
C11_EveryGroupRuns ==
    \A i \in DOMAIN vd.calls :
        /\ vd.calls[i].exc = ""
        /\ C11_BasicInfoNotMapping(vd.calls[i].data) =>
              PyStr(<<"basic_infoneun gaekcheyeoya ham">>)
                  \in Range(vd.calls[i].e)

-----------------------------------------------------------------------------
(* ApplicantExcelWriter on the workbook file.  A worksheet is the sequence *)
(* of its rows, a row the cells of the mapped columns; the file is <<>>    *)
(* until a template is created.                                            *)

\* int(key) for a key that isdigit accepts
int_of_key(key) ==
    IF \E i \in DOMAIN key : key[i] \in SuperscriptDigits
    THEN Raise("ValueError")
    ELSE Ok(int_of_digits(key, 1, Len(key)))

\* ApplicantExcelWriter._get_nested_value, from key i of keys on: the value
\* returned or the exception raised
RECURSIVE nested_value(_, _, _, _)
nested_value_step(h, next, keys, i) ==
    IF next = PyNone THEN Ok(PyNone) ELSE nested_value(h, next, keys, i + 1)
nested_value_at(h, value, idx, keys, i) ==
    IF idx.exc # "" THEN idx
    ELSE IF is_list(h, value) /\ idx.v < Len(h[value.a].l)
    THEN nested_value_step(h, h[value.a].l[idx.v + 1], keys, i)
    ELSE Ok(PyNone)
nested_value(h, value, keys, i) ==
    IF i > Len(keys) THEN Ok(value)
    ELSE IF isdigit(keys[i])
    THEN nested_value_at(h, value, int_of_key(keys[i]), keys, i)
    ELSE IF is_dict(h, value) /\ keys[i] \in DOMAIN h[value.a].d
    THEN nested_value_step(h, h[value.a].d[keys[i]], keys, i)
    ELSE Ok(PyNone)

\* path.replace('[', '.').replace(']', '').split('.')
path_keys(path) ==
    split(remove_char(replace_char(path, "[", "."), "]"), ".")

\* the keys of the paths of the column mapping, computed once
mapped_path_keys ==
    [path \in DOMAIN _create_column_mapping |-> path_keys(path)]

_get_nested_value(h, data, path) ==
    nested_value(h, data,
                 IF path \in DOMAIN mapped_path_keys
                 THEN mapped_path_keys[path] ELSE path_keys(path),
                 1)

\* the cells create_template writes in row 1 (their texts are not spelled
\* out: no operation reads them)
header_row(mapping) ==
    [c \in {mapping[p] : p \in DOMAIN mapping} |-> PyStr(<<"header">>)]

\* _load_or_create_workbook: the file after it, which is also the worksheet
_load_or_create_workbook(file, mapping) ==
    IF file = <<>> THEN <<header_row(mapping)>> ELSE file

\* str(row_number), the offset forgotten
generate_number_without_offset(row_number) == PyStr(str_int(row_number))

_generate_applicant_number(row_number) == PyStr(str_int(row_number - 1))

\* line 279: value if value is not None else ''
cell_value(value) == IF value = PyNone THEN PyStr(<<>>) ELSE value

\* cell.value = ... succeeds for a str or a number; openpyxl raises
\* ValueError for a dict or a list
writable(value) == value.t # "ref"

\* the cells _write_applicant_row writes in a row, values being the value
\* found at each path
row_of(values, mapping) ==
    [c \in {mapping[p] : p \in DOMAIN mapping} |->
        cell_value(values[CHOOSE p \in DOMAIN mapping : mapping[p] = c])]

\* the cells set one row higher than asked
set_row_above(ws, row_number, row) ==
    [i \in 1 .. Len(ws) |-> IF i = row_number - 1 THEN row ELSE ws[i]]

\* ws with the cells of row row_number set
set_row(ws, row_number, row) ==
    [i \in 1 .. (IF row_number > Len(ws) THEN row_number ELSE Len(ws)) |->
        IF i = row_number THEN row
        ELSE IF i <= Len(ws) THEN ws[i]
        ELSE [c \in DOMAIN row |-> PyStr(<<>>)]]

\* lines 274-280, values being the value found at each path
write_values(ws, row_number, values, mapping) ==
    IF \A p \in DOMAIN mapping : writable(values[p])
    THEN [exc |-> "", ws |-> set_row(ws, row_number, row_of(values, mapping))]
    ELSE [exc |-> "ValueError"]

\* lines 274-280, found being what _get_nested_value gave at each path
write_found(ws, row_number, found, mapping) ==
    IF \E p \in DOMAIN mapping : found[p].exc # ""
    THEN [exc |-> "ValueError"]
    ELSE write_values(ws, row_number,
                      [p \in DOMAIN mapping |-> found[p].v], mapping)

\* _write_applicant_row: the worksheet it leaves, or the exception
_write_applicant_row(h, ws, row_number, json_data, mapping) ==
    write_found(ws, row_number,
                [p \in DOMAIN mapping |-> _get_nested_value(h, json_data, p)],
                mapping)

\* lines 295-296: the applicant_number assigned when there is none
assign_number(h, json_data, row_number) ==
    IF truthy(h, get(h, json_data, k_applicant_number, PyNone).v) THEN h
    ELSE setitem(h, json_data.a, k_applicant_number,
                 _generate_applicant_number(row_number))

\* lines 298-302, written being what _write_applicant_row gave: the file is
\* saved only when the row was written
append_written(h, ws, next_row, written) ==
    IF written.exc # "" THEN [h |-> h, file |-> ws, exc |-> written.exc]
    ELSE [h |-> h, file |-> written.ws, exc |-> "", v |-> next_row]

append_to(h, ws, json_data, mapping, numbered) ==
    append_written(numbered, ws, Len(ws) + 1,
                   _write_applicant_row(numbered, ws, Len(ws) + 1, json_data,
                                        mapping))

\* writer.append_applicant(json_data): the heap and the file it leaves, and
\* the exception it raised or the row number it returned
append_applicant(h, file, json_data, mapping) ==
    IF ~is_dict(h, json_data)
    THEN [h |-> h, file |-> _load_or_create_workbook(file, mapping),
          exc |-> "AttributeError"]
    ELSE append_to(h, _load_or_create_workbook(file, mapping), json_data,
                   mapping,
                   assign_number(h, json_data,
                                 Len(_load_or_create_workbook(file, mapping)) + 1))

\* lines 318-324: the loop of batch_append from offset idx on; r is
\* [h, ws, exc]
RECURSIVE batch_rows(_, _, _, _, _)
batch_written(r, written) ==
    IF written.exc # "" THEN [h |-> r.h, ws |-> r.ws, exc |-> written.exc]
    ELSE [h |-> r.h, ws |-> written.ws, exc |-> ""]
batch_row(h, ws, current_row, json_data, mapping) ==
    IF ~is_dict(h, json_data) THEN [h |-> h, ws |-> ws, exc |-> "AttributeError"]
    ELSE batch_written(
             [h |-> assign_number(h, json_data, current_row), ws |-> ws],
             _write_applicant_row(assign_number(h, json_data, current_row), ws,
                                  current_row, json_data, mapping))
batch_rows(r, start_row, json_data_list, idx, mapping) ==
    IF r.exc # "" \/ idx >= Len(json_data_list) THEN r
    ELSE batch_rows(batch_row(r.h, r.ws, start_row + idx,
                              json_data_list[idx + 1], mapping),
                    start_row, json_data_list, idx + 1, mapping)

\* the file holds whatever rows the loop wrote, a failure or not
batch_saved_whatever_written(file, r) ==
    [h |-> r.h, file |-> r.ws, exc |-> r.exc, saved |-> TRUE,
     done |-> Len(r.ws) - Len(file)]

\* lines 326-328, r being what the loop gave: the file is saved once, after
\* the last record; saved tells whether wb.save was called, done how many
\* records the loop wrote to the worksheet before it ended
batch_saved(file, r) ==
    IF r.exc # ""
    THEN [h |-> r.h, file |-> file, exc |-> r.exc, saved |-> FALSE,
          done |-> Len(r.ws) - Len(file)]
    ELSE [h |-> r.h, file |-> r.ws, exc |-> "", saved |-> TRUE,
          done |-> Len(r.ws) - Len(file)]

\* the calls of wb.save that loading the workbook makes: one, in
\* create_template, when there is no file
template_saves(file) == IF file = <<>> THEN 1 ELSE 0

\* writer.batch_append(json_data_list), a list of records
batch_append(h, file, json_data_list, mapping) ==
    IF json_data_list = <<>>
    THEN [h |-> h, file |-> file, exc |-> "", saved |-> FALSE, done |-> 0]
    ELSE batch_saved(
             _load_or_create_workbook(file, mapping),
             batch_rows([h |-> h, ws |-> _load_or_create_workbook(file, mapping),
                         exc |-> ""],
                        Len(_load_or_create_workbook(file, mapping)) + 1,
                        json_data_list, 0, mapping))

-----------------------------------------------------------------------------
(* process_applicant_resume: clean, validate, write.  Its outcome is       *)
(* [h, file, exc, ret, validated, errors, called, written]: the heap and   *)
(* the file it leaves, the exception it raised or the value it returned,   *)
(* whether validate returned and the errors it gave, whether               *)
(* append_applicant was called and whether it returned.                    *)

Outcome(h, file, exc, ret, validated, errors, called, written) ==
    [h |-> h, file |-> file, exc |-> exc, ret |-> ret,
     validated |-> validated, errors |-> errors, called |-> called,
     written |-> written]

\* the write decided whatever validate said
should_write_always(is_valid, strict_mode) == TRUE

\* line 341: is_valid or not strict_mode
should_write(is_valid, strict_mode) == is_valid \/ ~strict_mode

\* lines 344-349, appended being what append_applicant gave: the except
\* catches what it raised, and the KeyError of cleaned_data['applicant_name']
process_appended(errors, cleaned, appended) ==
    IF appended.exc # ""
    THEN Outcome(appended.h, appended.file, "", FALSE, TRUE, errors, TRUE, FALSE)
    ELSE Outcome(appended.h, appended.file, "",
                 k_applicant_name \in DOMAIN appended.h[cleaned.a].d,
                 TRUE, errors, TRUE, TRUE)

\* lines 341-352, v being what validate gave
process_validated(v, file, cleaned, strict_mode, mapping) ==
    IF v.exc # ""
    THEN Outcome(v.h, file, v.exc, FALSE, FALSE, <<>>, FALSE, FALSE)
    ELSE IF should_write(v.is_valid, strict_mode)
    THEN process_appended(v.h[v.errors.a].l, cleaned,
                          append_applicant(v.h, file, cleaned, mapping))
    ELSE Outcome(v.h, file, "", FALSE, TRUE, v.h[v.errors.a].l, FALSE, FALSE)

\* lines 337-352, c being what clean gave
process_cleaned(c, file, strict_mode, today, mapping) ==
    IF c.exc # ""
    THEN Outcome(c.h, file, c.exc, FALSE, FALSE, <<>>, FALSE, FALSE)
    ELSE process_validated(
             validate(validator_init(c.h, strict_mode).h,
                      validator_init(c.h, strict_mode).self, c.v, today),
             file, c.v, strict_mode, mapping)

process_applicant_resume(h, file, json_data, strict_mode, today, mapping) ==
    process_cleaned(clean(h, json_data.a), file, strict_mode, today, mapping)

-----------------------------------------------------------------------------
(* The writer and the pipeline called on one workbook file.                *)

MaxOps == 2          \* calls made on the file
MaxDataRows == 4     \* data rows of the file the calls start from

s_A == PyStr(<<"A">>)
s_7 == PyStr(<<"7">>)

\* the record of the spec's end-to-end scenario: no number, no work
\* experience
Unnumbered ==
    Resume(Absent, s_A, d_2024_12_19,
           BasicInfoOf(PyStr(<<"1", "9", "9", "0">>), PyStr(<<"M">>), s_X,
                       d_bachelor),
           Absent)
Numbered ==
    Resume(s_7, s_A, d_2024_12_19, GoodBasicInfo, ListTree(<<GoodEntry>>))
\* nothing wrong but the name, which is missing
Nameless ==
    Resume(s_7, Absent, d_2024_12_19, GoodBasicInfo, ListTree(<<GoodEntry>>))
\* passes every rule; the school is a list, which no cell can hold
ListSchool ==
    Resume(s_7, s_A, d_2024_12_19,
           BasicInfoOf(PyStr(<<"1", "9", "9", "0">>), PyStr(MALE),
                       ListTree(<<s_X>>), d_bachelor),
           ListTree(<<GoodEntry>>))
\* clean raises on it
IntDate == Resume(s_7, s_A, PyInt(20241215), GoodBasicInfo, Absent)
\* validate raises on it
StrBasicInfo == Resume(s_7, s_A, d_2024_12_19, s_abc, Absent)

\* the number is whitespace only
BlankNumber ==
    Resume(PyStr(<<" ", " ">>), s_A, d_2024_12_19, GoodBasicInfo, Absent)

ProcessInputs ==
    {Unnumbered, Numbered, Nameless, ListSchool, IntDate, StrBasicInfo,
     BlankNumber}
AppendInputs == {Unnumbered, Numbered}
BatchInputs ==
    { <<>>, <<Unnumbered, Unnumbered, Unnumbered>>, <<Unnumbered, Numbered>>,
      <<Unnumbered, ListSchool, Unnumbered>> }

\* the file after m records were appended to a new template
RECURSIVE Preloaded(_, _)
Preloaded(m, mapping) ==
    IF m = 0 THEN <<header_row(mapping)>>
    ELSE append_applicant(alloc(<<>>, Unnumbered).h, Preloaded(m - 1, mapping),
                          alloc(<<>>, Unnumbered).v, mapping).file

Init ==
    /\ col = [fn |-> "none"]
    /\ column_mapping = _create_column_mapping
    /\ heap = <<>>
    /\ cl = Idle
    /\ vd = Idle
    /\ clock = <<2024, 12, 18>>
    /\ store \in {<<>>} \cup
                 {Preloaded(m, _create_column_mapping) : m \in 0 .. MaxDataRows}
    /\ pr = [op |-> "none", ops |-> 0, sequential |-> Len(store) < 2]

frame == <<col, column_mapping, cl, vd, clock>>

\* json_data has a caller-supplied applicant_number
supplied(h, json_data) ==
    truthy(h, get(h, json_data, k_applicant_number, PyNone).v)

ProcessReturns(doc, strict_mode, r) ==
    /\ heap' = r.h
    /\ store' = r.file
    /\ pr' = [op |-> "process", ops |-> pr.ops + 1, sequential |-> FALSE,
              doc |-> doc, strict_mode |-> strict_mode, before |-> store,
              exc |-> r.exc, ret |-> r.ret, validated |-> r.validated,
              errors |-> r.errors, called |-> r.called, written |-> r.written]

ProcessOn(doc, strict_mode, data) ==
    ProcessReturns(doc, strict_mode,
                   process_applicant_resume(data.h, store, data.v, strict_mode,
                                            clock, column_mapping))

\* process_applicant_resume(json_data, writer, strict_mode) on a record just
\* decoded
Process ==
    /\ pr.ops < MaxOps
    /\ \E doc \in ProcessInputs, strict_mode \in BOOLEAN :
          ProcessOn(doc, strict_mode, alloc(<<>>, doc))
    /\ UNCHANGED frame

AppendReturns(doc, data, r) ==
    /\ heap' = r.h
    /\ store' = r.file
    /\ pr' = [op |-> "append", ops |-> pr.ops + 1,
              sequential |-> pr.sequential /\ ~supplied(data.h, data.v)
                                /\ r.exc = "",
              doc |-> doc, before |-> store, exc |-> r.exc,
              supplied |-> supplied(data.h, data.v),
              row |-> IF r.exc = "" THEN r.v ELSE 0, data |-> data.v]

\* writer.append_applicant(json_data)
AppendApplicant ==
    /\ pr.ops < MaxOps
    /\ \E doc \in AppendInputs :
          AppendReturns(doc, alloc(<<>>, doc),
                        append_applicant(alloc(<<>>, doc).h, store,
                                         alloc(<<>>, doc).v, column_mapping))
    /\ UNCHANGED frame

\* the records of a list, allocated one after the other: the heap and the
\* list
RECURSIVE alloc_all(_, _, _)
alloc_all(h, docs, refs) ==
    IF Len(refs) = Len(docs) THEN [h |-> h, l |-> refs]
    ELSE alloc_all(alloc(h, docs[Len(refs) + 1]).h, docs,
                   Append(refs, alloc(h, docs[Len(refs) + 1]).v))

BatchReturns(docs, data, r) ==
    /\ heap' = r.h
    /\ store' = r.file
    /\ pr' = [op |-> "batch", ops |-> pr.ops + 1, sequential |-> FALSE,
              docs |-> docs, before |-> store, exc |-> r.exc,
              supplied |-> [k \in DOMAIN docs |-> supplied(data.h, data.l[k])],
              data |-> data.l, done |-> r.done,
              saves |-> (IF docs = <<>> THEN 0 ELSE template_saves(store))
                        + (IF r.saved THEN 1 ELSE 0)]

\* writer.batch_append(json_data_list)
BatchAppend ==
    /\ pr.ops < MaxOps
    /\ \E docs \in BatchInputs :
          BatchReturns(docs, alloc_all(<<>>, docs, <<>>),
                       batch_append(alloc_all(<<>>, docs, <<>>).h, store,
                                    alloc_all(<<>>, docs, <<>>).l,
                                    column_mapping))
    /\ UNCHANGED frame

Next == Process \/ AppendApplicant \/ BatchAppend

Spec == Init /\ [][Next]_vars

-----------------------------------------------------------------------------
(* Properties of the writer and the pipeline, checked under Spec.          *)

\* the worksheet the last call loaded
LoadedBefore == _load_or_create_workbook(pr.before, column_mapping)

\* the last call added exactly one row to the file
OneRowAppended ==
    /\ Len(store) = Len(LoadedBefore) + 1
    /\ SubSeq(store, 1, Len(LoadedBefore)) = LoadedBefore

\* the applicant_number cell of a row
NumberCell(row_number) == store[row_number][<<"A">>]
\* the applicant_name cell of a row
NameCell(row_number) == store[row_number][<<"B">>]

\* C1: in non-strict mode a record whose only defect is the missing
\* applicant_name is appended as one row with an empty name cell and process
\* returns True; process returns True whenever a row was appended.
C1_WrittenReturnsTrue ==
    (pr.op = "process" /\ ~pr.strict_mode) =>
        /\ pr.doc = Nameless =>
              /\ OneRowAppended
              /\ NameCell(Len(store)) = PyStr(<<>>)
              /\ pr.exc = "" /\ pr.ret
        /\ OneRowAppended => (pr.exc = "" /\ pr.ret)

C7_SequentialNumbers ==
    /\ (pr.op = "append" /\ pr.exc = "" /\ ~pr.supplied) =>
          /\ pr.row = Len(LoadedBefore) + 1
          /\ OneRowAppended
          /\ NumberCell(pr.row) = PyStr(str_int(pr.row - 1))
          /\ heap[pr.data.a].d[k_applicant_number] = NumberCell(pr.row)
    /\ pr.sequential =>
          \A k \in 1 .. (Len(store) - 1) : NumberCell(k + 1) = PyStr(str_int(k))
    /\ (pr.sequential /\ Len(store) > 1) => NumberCell(2) = PyStr(<<"1">>)
    /\ (pr.op = "batch" /\ pr.exc = "" /\ pr.docs # <<>>) =>
          /\ Len(store) = Len(LoadedBefore) + Len(pr.docs)
          /\ SubSeq(store, 1, Len(LoadedBefore)) = LoadedBefore
          /\ \A k \in 0 .. (Len(pr.docs) - 1) :
                ~pr.supplied[k + 1] =>
                   /\ NumberCell(Len(LoadedBefore) + 1 + k) =
                         PyStr(str_int(Len(LoadedBefore) + k))
                   /\ heap[pr.data[k + 1].a].d[k_applicant_number] =
                         NumberCell(Len(LoadedBefore) + 1 + k)
    /\ (pr.op = "batch" /\ pr.exc = "" /\ Len(pr.before) = 5
        /\ pr.docs = <<Unnumbered, Unnumbered, Unnumbered>>) =>
          /\ NumberCell(6) = PyStr(<<"5">>)
          /\ NumberCell(7) = PyStr(<<"6">>)
          /\ NumberCell(8) = PyStr(<<"7">>)

\* three records in a batch on four data rows, after an append
C7_Witness ==
    /\ pr.op = "batch" /\ pr.exc = "" /\ pr.ops = 2
    /\ Len(pr.before) = 5 /\ Len(store) = 8
    /\ \A k \in 1 .. 3 : ~pr.supplied[k]
    /\ NumberCell(8) = PyStr(<<"7">>)

\* the offset of the first record of the last batch that cannot be written
\* (one that is not a dict or holds a list where a cell value is read), the
\* number of records when there is none
RECURSIVE C14_FirstFailing(_)
C14_FirstFailing(k) ==
    IF k >= Len(pr.docs) \/ pr.docs[k + 1] = ListSchool THEN k
    ELSE C14_FirstFailing(k + 1)

\* C14 as stated: batch_append saves exactly once, after the last record
\* was written to the worksheet; when writing record k fails the later
\* records are not written, save is never called and the file is what it
\* was before the call.
C14_BatchAllOrNothing ==
    (pr.op = "batch" /\ pr.docs # <<>>) =>
        /\ pr.exc = "" =>
              /\ pr.saves = 1 /\ pr.done = Len(pr.docs)
              /\ Len(store) = Len(LoadedBefore) + Len(pr.docs)
        /\ pr.exc # "" =>
              /\ pr.saves = 0 /\ pr.done = C14_FirstFailing(0)
              /\ store = pr.before

\* C14 amended: batch_append saves the records exactly once, after the last
\* record was written to the worksheet; when writing record k fails the
\* later records are not written, that save is never made and the file
\* holds none of the records: it is what it was before the call, or the
\* new template when there was no file.
C14_BatchRecordsAllOrNothing ==
    (pr.op = "batch" /\ pr.docs # <<>>) =>
        /\ pr.saves = template_saves(pr.before)
                          + (IF pr.exc = "" THEN 1 ELSE 0)
        /\ pr.exc = "" =>
              /\ pr.done = Len(pr.docs)
              /\ Len(store) = Len(LoadedBefore) + Len(pr.docs)
        /\ pr.exc # "" =>
              /\ pr.done = C14_FirstFailing(0)
              /\ store = LoadedBefore
              /\ pr.before # <<>> => store = pr.before

\* a batch whose second record could not be written, on a file with rows
C14_Witness ==
    /\ pr.op = "batch" /\ pr.exc = "ValueError"
    /\ pr.docs = <<Unnumbered, ListSchool, Unnumbered>>
    /\ pr.done = 1 /\ pr.saves = 0
    /\ Len(pr.before) > 2 /\ store = pr.before

\* the record has no applicant_number: the key is absent, or its value is
\* None or the empty str
C18_NoNumber(doc) ==
    \/ k_applicant_number \notin DOMAIN doc.d
    \/ doc.d[k_applicant_number] \in {PyNone, PyStr(<<>>)}

\* C18: in strict mode a record without applicant_number gets the
\* required-field error from validate and is not written, and a row that
\* process_applicant_resume appended carries the caller's applicant_number,
\* a str that is not empty: no number is generated in strict mode.
C18_StrictNeverGeneratesNumber ==
    (pr.op = "process" /\ pr.strict_mode) =>
        /\ C18_NoNumber(pr.doc) =>
              /\ ~pr.called /\ ~OneRowAppended /\ store = pr.before
              /\ pr.validated =>
                    PyStr(<<"pilsu pildeu nurak: ">> \o k_applicant_number)
                        \in Range(pr.errors)
        /\ OneRowAppended =>
              /\ k_applicant_number \in DOMAIN pr.doc.d
              /\ pr.doc.d[k_applicant_number].t = "str"
              /\ NumberCell(Len(store)) =
                    PyStr(strip(pr.doc.d[k_applicant_number].s))
              /\ NumberCell(Len(store)) # PyStr(<<>>)

\* in strict mode, the record without a number kept out of a file with rows
C18_Witness ==
    /\ pr.op = "process" /\ pr.strict_mode /\ pr.doc = Unnumbered
    /\ pr.validated /\ Len(pr.errors) = 1 /\ ~pr.ret
    /\ Len(pr.before) > 1 /\ store = pr.before

\* the columns of the mapping, 39 of them
C19_MappedColumns == {column_mapping[p] : p \in DOMAIN column_mapping}

\* the records the last call was given
C19_Records == IF pr.op = "append" THEN 1 ELSE Len(pr.docs)

\* C19: append_applicant and batch_append only add rows after the last row
\* of the worksheet they loaded: a call that returned added one row per
\* record it was given, the header and the earlier rows are as they were,
\* and each new row has the 39 mapped columns written and no other.  A call
\* that raised left the rows of the file as they were.
C19_AppendsOnlyAddRows ==
    (pr.op \in {"append", "batch"}) =>
        IF pr.op = "batch" /\ pr.docs = <<>> THEN store = pr.before
        ELSE /\ Len(store) >= Len(LoadedBefore)
             /\ SubSeq(store, 1, Len(LoadedBefore)) = LoadedBefore
             /\ pr.exc # "" => store = LoadedBefore
             /\ pr.exc = "" =>
                   /\ Len(store) = Len(LoadedBefore) + C19_Records
                   /\ Cardinality(C19_MappedColumns) = 39
                   /\ \A i \in Len(LoadedBefore) + 1 .. Len(store) :
                         DOMAIN store[i] = C19_MappedColumns

\* a batch of three records added three rows to a file an earlier call had
\* added rows to
C19_Witness ==
    /\ pr.op = "batch" /\ pr.exc = "" /\ pr.ops = 2 /\ Len(pr.docs) = 3
    /\ Len(pr.before) >= 3
    /\ Len(store) = Len(pr.before) + 3
    /\ SubSeq(store, 1, Len(pr.before)) = pr.before

-----------------------------------------------------------------------------
(* ApplicantExcelWriter._get_nested_value applied to documents and paths   *)
(* of every shape.                                                         *)

MaxGets == 1     \* calls made

k_a == <<"a">>
k_b == <<"b">>
k_c == <<"c">>
k_f == <<"f">>
k_n == <<"n">>
k_s == <<"s">>
k_w == <<"w">>

GetDocuments ==
    { \* {'a': {'b': {'c': 'X'}}, 'w': [{'f': 'X'}, {'f': 'Y'}], 'n': None,
      \*  's': 'abc'}
      DictTree((k_a :> DictTree(k_b :> DictTree(k_c :> s_X))) @@
               (k_w :> ListTree(<<DictTree(k_f :> s_X), DictTree(k_f :> s_Y)>>)) @@
               (k_n :> PyNone) @@ (k_s :> s_abc)),
      \* {}
      DictTree(<<>>),
      \* {'a': 'X', 'w': []}
      DictTree((k_a :> s_X) @@ (k_w :> ListTree(<<>>))),
      \* {'w': [None, {'f': 3}], 'a': {'b': None}}
      DictTree((k_w :> ListTree(<<PyNone, DictTree(k_f :> PyInt(3))>>)) @@
               (k_a :> DictTree(k_b :> PyNone))),
      \* {'w': {'0': {'f': 'X'}}, 'a': {'': 'Y'}}
      DictTree((k_w :> DictTree(<<"0">> :> DictTree(k_f :> s_X))) @@
               (k_a :> DictTree(<<>> :> s_Y))),
      \* {'w': [['X'], 'Y']}
      DictTree(k_w :> ListTree(<<ListTree(<<s_X>>), s_Y>>)),
      \* [{'f': 'X'}]
      ListTree(<<DictTree(k_f :> s_X)>>) }

GetPaths ==
    { <<"a">>,                                    \* 'a'
      <<"a", ".", "b">>,                          \* 'a.b'
      <<"a", ".", "b", ".", "c">>,                \* 'a.b.c'
      <<"w", "[", "0", "]", ".", "f">>,           \* 'w[0].f'
      <<"w", "[", "1", "]", ".", "f">>,           \* 'w[1].f'
      <<"w", "[", "2", "]", ".", "f">>,           \* 'w[2].f'
      <<"w", "[", "0", "]">>,                     \* 'w[0]'
      <<"w", ".", "0", ".", "f">>,                \* 'w.0.f'
      <<"a", "[", "0", "]">>,                     \* 'a[0]'
      <<"w", ".", "f">>,                          \* 'w.f'
      <<"n", ".", "x">>,                          \* 'n.x'
      <<"s", ".", "x">>,                          \* 's.x'
      <<"s", "[", "0", "]">>,                     \* 's[0]'
      <<>>,                                       \* ''
      <<"w", "[", "sup2", "]">>,                  \* 'w[²]'
      <<"a", ".", "sup2">>,                       \* 'a.²'
      <<"w", "[", "0", "1", "]", ".", "f">>,      \* 'w[01].f'
      <<"w", "[", "-", "1", "]">>,                \* 'w[-1]'
      <<"z">>,                                    \* 'z'
      <<"a", ".">>,                               \* 'a.'
      <<"0">>,                                    \* '0'
      <<"0", ".", "f">>,                          \* '0.f'
      <<"w", "[", "0", "]", "[", "0", "]">> }     \* 'w[0][0]'

GetInit ==
    /\ col = [fn |-> "none"]
    /\ column_mapping = _create_column_mapping
    /\ heap = <<>>
    /\ cl = Idle
    /\ vd = Idle
    /\ store = <<>>
    /\ pr = [op |-> "none", ops |-> 0]
    /\ clock = <<2024, 12, 18>>

GetReturns(doc, data, path, r) ==
    /\ heap' = data.h
    /\ pr' = [op |-> "get", ops |-> pr.ops + 1, doc |-> doc, data |-> data.v,
              path |-> path, r |-> r]

GetOn(doc, data, path) ==
    GetReturns(doc, data, path, _get_nested_value(data.h, data.v, path))

\* ApplicantExcelWriter._get_nested_value(data, path) on a document just
\* decoded
GetNestedValue ==
    /\ pr.ops < MaxGets
    /\ \E doc \in GetDocuments : \E path \in GetPaths :
          GetOn(doc, alloc(<<>>, doc), path)
    /\ UNCHANGED <<col, column_mapping, cl, vd, store, clock>>

GetNext == GetNestedValue

GetSpec == GetInit /\ [][GetNext]_vars

\* C13: _get_nested_value never raises and leaves the document as it was,
\* for every document and path.
C13_NestedValueTotal ==
    pr.op = "get" =>
        /\ pr.r.exc = ""
        /\ deep(heap, pr.data) = pr.doc

-----------------------------------------------------------------------------
(* main.batch_process_json_files: the files are handled one after the      *)
(* other, each step of the loop being one action.  A file is named by its  *)
(* position in json_files; what it holds is Missing (there is no such      *)
(* file), Undecodable (json.load raises JSONDecodeError) or the value      *)
(* json.load gives.                                                        *)

MaxFiles == 2     \* files given to one call

Missing == [t |-> "missing"]
Undecodable == [t |-> "undecodable"]

\* process_applicant_resume on what json.load gave.  Of a value that is not
\* a dict, a list is copied and trimmed by clean and makes data.get raise
\* in validate, anything else makes data.copy() raise in clean: AttributeError
\* either way, before anything is written.
process_decoded(h, file, json_data, strict_mode, today, mapping) ==
    IF is_dict(h, json_data)
    THEN process_applicant_resume(h, file, json_data, strict_mode, today,
                                  mapping)
    ELSE IF is_list(h, json_data)
    THEN Outcome(_trim_strings(Append(h, h[json_data.a]), PyRef(Len(h) + 1)),
                 file, "AttributeError", FALSE, FALSE, <<>>, FALSE, FALSE)
    ELSE Outcome(h, file, "AttributeError", FALSE, FALSE, <<>>, FALSE, FALSE)

\* results[list].append(item)
record(results, list, item) == [results EXCEPT ![list] = Append(@, item)]

\* an except clause that leaves the file out of the lists
failed_file_unrecorded(h, file, results, json_file) ==
    [h |-> h, file |-> file, results |-> results]

\* results['failed'].append(json_file), in the else of line 153 and in the
\* three except clauses
failed_file(h, file, results, json_file) ==
    [h |-> h, file |-> file, results |-> record(results, "failed", json_file)]

\* lines 151-152, v being what validator.validate gave
warnings_validated(file, results, json_file, v) ==
    IF v.exc # "" THEN failed_file(v.h, file, results, json_file)
    ELSE IF v.h[v.warnings.a].l # <<>>
    THEN [h |-> v.h, file |-> file,
          results |-> record(results, "warnings",
                             <<json_file, v.h[v.warnings.a].l>>)]
    ELSE [h |-> v.h, file |-> file, results |-> results]

\* lines 147-152, c being what DataCleaner.clean(json_data) gave
warnings_cleaned(file, results, json_file, c, today) ==
    IF c.exc # "" THEN failed_file(c.h, file, results, json_file)
    ELSE warnings_validated(
             file, results, json_file,
             validate(validator_init(c.h, FALSE).h,
                      validator_init(c.h, FALSE).self, c.v, today))

\* lines 143-166, p being what process_applicant_resume gave
file_processed(results, json_file, json_data, p, today) ==
    IF p.exc # "" THEN failed_file(p.h, p.file, results, json_file)
    ELSE IF p.ret
    THEN warnings_cleaned(p.file, record(results, "success", json_file),
                          json_file, clean(p.h, json_data.a), today)
    ELSE failed_file(p.h, p.file, results, json_file)

\* lines 137-166, data being what json.load gave
file_decoded(file, results, json_file, data, strict_mode, today, mapping) ==
    file_processed(results, json_file, data.v,
                   process_decoded(data.h, file, data.v, strict_mode, today,
                                   mapping),
                   today)

\* lines 132-166: the body of the loop for one file
batch_file(file, results, json_file, content, strict_mode, today, mapping) ==
    IF content \in {Missing, Undecodable}
    THEN failed_file(<<>>, file, results, json_file)
    ELSE file_decoded(file, results, json_file, alloc(<<>>, content),
                      strict_mode, today, mapping)

FileContents ==
    { Missing, Undecodable, Unnumbered, Numbered, Nameless, ListSchool,
      StrBasicInfo, ListTree(<<Numbered>>) }

MainInit ==
    /\ col = [fn |-> "none"]
    /\ column_mapping = _create_column_mapping
    /\ heap = <<>>
    /\ cl = Idle
    /\ vd = Idle
    /\ \/ store = <<>> /\ clock = <<2024, 12, 18>>
       \/ store = Preloaded(1, _create_column_mapping)
          /\ clock = <<2024, 12, 19>>
    /\ \E strict_mode \in BOOLEAN :
       \E json_files \in SeqsUpTo(FileContents, MaxFiles) :
          pr = [op |-> "main", pc |-> "start", json_files |-> json_files,
                strict_mode |-> strict_mode]

\* lines 116-130: the template is created when there is no file
BatchStart ==
    /\ pr.op = "main" /\ pr.pc = "start"
    /\ store' = _load_or_create_workbook(store, column_mapping)
    /\ pr' = [op |-> "main", pc |-> "loop", json_files |-> pr.json_files,
              strict_mode |-> pr.strict_mode, handled |-> 0,
              results |-> [success |-> <<>>, failed |-> <<>>,
                           warnings |-> <<>>]]
    /\ UNCHANGED <<col, column_mapping, heap, cl, vd, clock>>

BatchFileReturns(r) ==
    /\ heap' = r.h
    /\ store' = r.file
    /\ pr' = [pr EXCEPT !.handled = @ + 1, !.results = r.results]

\* lines 132-166: the next file of json_files
BatchFile ==
    /\ pr.op = "main" /\ pr.pc = "loop"
    /\ pr.handled < Len(pr.json_files)
    /\ BatchFileReturns(batch_file(store, pr.results, pr.handled + 1,
                                   pr.json_files[pr.handled + 1],
                                   pr.strict_mode, clock, column_mapping))
    /\ UNCHANGED <<col, column_mapping, cl, vd, clock>>

\* lines 168-189: the summary, and the results returned
BatchSummary ==
    /\ pr.op = "main" /\ pr.pc = "loop"
    /\ pr.handled = Len(pr.json_files)
    /\ pr' = [pr EXCEPT !.pc = "done"]
    /\ UNCHANGED <<col, column_mapping, heap, cl, vd, store, clock>>

MainNext == BatchStart \/ BatchFile \/ BatchSummary

MainSpec == MainInit /\ [][MainNext]_vars

\* the number of times json_file is in a list of files
C17_Count(files, json_file) ==
    Cardinality({i \in DOMAIN files : files[i] = json_file})

\* C17: every file handled so far is in exactly one of success and failed,
\* each list in the order of json_files, whatever happened to the files
\* before it; a file that is missing, does not decode, is not a dict or
\* makes the processing raise is in failed; only files in success are in
\* warnings; when the results are returned every file has been handled.
C17_EveryFileHandledOnce ==
    (pr.op = "main" /\ pr.pc # "start") =>
        /\ Len(pr.results.success) + Len(pr.results.failed) = pr.handled
        /\ \A f \in 1 .. pr.handled :
              /\ C17_Count(pr.results.success, f)
                    + C17_Count(pr.results.failed, f) = 1
              /\ (\/ pr.json_files[f] \in {Missing, Undecodable, StrBasicInfo}
                  \/ pr.json_files[f].t # "dict")
                    => C17_Count(pr.results.failed, f) = 1
        /\ \A i, j \in DOMAIN pr.results.success :
              i < j => pr.results.success[i] < pr.results.success[j]
        /\ \A i, j \in DOMAIN pr.results.failed :
              i < j => pr.results.failed[i] < pr.results.failed[j]
        /\ \A i \in DOMAIN pr.results.warnings :
              C17_Count(pr.results.success, pr.results.warnings[i][1]) = 1
        /\ pr.pc = "done" => pr.handled = Len(pr.json_files)

\* a file that made the processing raise, then a file written with a
\* warning, the results returned
C17_Witness ==
    /\ pr.op = "main" /\ pr.pc = "done"
    /\ pr.json_files = <<StrBasicInfo, Numbered>>
    /\ pr.results.failed = <<1>> /\ pr.results.success = <<2>>
    /\ Len(pr.results.warnings) = 1 /\ pr.results.warnings[1][1] = 2
    /\ Len(store) = 2

=============================================================================
